---------------------------- MODULE Spec2Model ----------------------------
(***************************************************************************)
(* SketchScript 2.0 (src/main.py): the expression parser, the evaluator,   *)
(* the block matcher and the statement interpreter, as a state machine.    *)
(*                                                                         *)
(* Indices are Python's (0-based): At(tokens, i) is tokens[i].             *)
(* Numbers are Python floats (IEEE 754 binary64), with the rounding of      *)
(* every operation.  Tokens are atomic strings; the lexical tests of       *)
(* parse_factor (isdigit, isalpha) are tables over the tokens in use.      *)
(***************************************************************************)
EXTENDS Integers, Sequences, FiniteSets, TLC

VARIABLES
    current_state,  \* the application's mode: syntax, input, running, crashed
    tokens,         \* the token sequence handed to the function under study
    frames,         \* active interpret() invocations, outermost first
    symbols,        \* the environment: name -> number or function definition
    call_stack,     \* saved environments, oldest first
    cursor,         \* [x, y, angle, color]
    screen,         \* drawing primitives emitted so far, in order
    error,          \* "none", or the exception that ended the run
    last,           \* history: the statement executed by the last step, and the state before it
    count,          \* history: [calls, iters, stmts] executed in this run, runs completed before it
    arg,            \* inputs of the pure function under study other than tokens
    res             \* result of the pure function under study

vars == <<current_state, tokens, frames, symbols, call_stack, cursor, screen,
          error, last, count, arg, res>>

-----------------------------------------------------------------------------
(* Bounds *)

MaxN == 5          \* largest loop limit / recursion argument of the program families
MaxSeqLen == 3     \* token sequences of every shape up to this length
MaxOperands == 3   \* operand count of the generated operator chains
MaxBlockLen == 5   \* brace sequences up to this length
MaxSteps == 60     \* statements executed in one run
MaxTurns == 3      \* TURN statements of the generated TURN programs
MaxMoves == 2      \* MOVE statements of the generated MOVE programs
MaxCodeLen == 4    \* source strings of every shape up to this length
MaxRuns == 1       \* restarts (R) followed in one session

-----------------------------------------------------------------------------
(* Sequences with Python indexing *)

At(s, i) == s[i + 1]

\* s[a:b] for 0 <= a; b is clamped to len(s) as Python does, and a > b gives [].
Slice(s, a, b) ==
    LET hi == IF b > Len(s) THEN Len(s) ELSE b
    IN  IF a >= hi THEN <<>> ELSE SubSeq(s, a + 1, hi)

Last(s) == s[Len(s)]
Front(s) == SubSeq(s, 1, Len(s) - 1)

-----------------------------------------------------------------------------
(* Numbers *)

\* A Python float is an IEEE 754 binary64: sign, a mantissa of at most 53 bits
\* and a binary exponent.  The value s * m * 2^e is kept with m odd, so that
\* equal numbers are equal records; m is a natural number written in limbs of
\* 15 bits, least significant first, and <<>> is zero.  Every operation gives
\* the exact result rounded to the nearest double, ties to the even mantissa,
\* as the hardware does.  Out of range of the model: overflow to infinity,
\* subnormal results, and the sign of zero (-0.0 == 0.0 in Python, and no
\* statement of the language tells them apart).  The integers the program uses
\* (0, WIDTH // 2, HEIGHT // 2) are below 2^53 and are kept the same way.

LimbBits == 15
MantissaBits == 53


\* 2^k for k in 0 .. 15
Pow2(k) == <<1, 2, 4, 8, 16, 32, 64, 128, 256, 512, 1024, 2048, 4096, 8192, 16384, 32768>>[k + 1]

Base == Pow2(LimbBits)

\* Natural numbers of any size: the limbs of a number, without zero limbs on top.

RECURSIVE Trim(_)
Trim(a) == IF a = <<>> THEN <<>>
           ELSE IF a[Len(a)] = 0 THEN Trim(SubSeq(a, 1, Len(a) - 1)) ELSE a

RECURSIVE BigOfInt(_)
BigOfInt(k) == IF k = 0 THEN <<>> ELSE <<k % Base>> \o BigOfInt(k \div Base)

RECURSIVE BigToInt(_)
BigToInt(a) == IF a = <<>> THEN 0 ELSE Head(a) + Base * BigToInt(Tail(a))

RECURSIVE BigAddC(_, _, _)
BigAddC(a, b, c) ==
    IF a = <<>> /\ b = <<>> THEN (IF c = 0 THEN <<>> ELSE <<c>>)
    ELSE IF b = <<>> /\ c = 0 THEN a
    ELSE IF a = <<>> /\ c = 0 THEN b
    ELSE LET x == (IF a = <<>> THEN 0 ELSE Head(a)) + (IF b = <<>> THEN 0 ELSE Head(b)) + c
         IN  <<x % Base>> \o BigAddC(IF a = <<>> THEN <<>> ELSE Tail(a),
                                     IF b = <<>> THEN <<>> ELSE Tail(b), x \div Base)

BigAdd(a, b) == BigAddC(a, b, 0)

RECURSIVE BigSubB(_, _, _)
BigSubB(a, b, br) ==
    IF a = <<>> THEN <<>>
    ELSE IF b = <<>> /\ br = 0 THEN a
    ELSE LET x == Head(a) - (IF b = <<>> THEN 0 ELSE Head(b)) - br
         IN  <<IF x < 0 THEN x + Base ELSE x>>
                 \o BigSubB(Tail(a), IF b = <<>> THEN <<>> ELSE Tail(b), IF x < 0 THEN 1 ELSE 0)

BigSub(a, b) == Trim(BigSubB(a, b, 0))

RECURSIVE BigCmpFrom(_, _, _)
BigCmpFrom(a, b, i) ==
    IF i = 0 THEN 0
    ELSE IF a[i] < b[i] THEN -1
    ELSE IF a[i] > b[i] THEN 1
    ELSE BigCmpFrom(a, b, i - 1)

BigCmp(a, b) ==
    IF Len(a) < Len(b) THEN -1
    ELSE IF Len(a) > Len(b) THEN 1
    ELSE BigCmpFrom(a, b, Len(a))

RECURSIVE BigMulSmallC(_, _, _)
BigMulSmallC(a, k, c) ==
    IF a = <<>> THEN (IF c = 0 THEN <<>> ELSE <<c>>)
    ELSE LET x == Head(a) * k + c
         IN  <<x % Base>> \o BigMulSmallC(Tail(a), k, x \div Base)

RECURSIVE BigMulRaw(_, _)
BigMulRaw(a, b) ==
    IF b = <<>> THEN <<>>
    ELSE BigAdd(BigMulSmallC(a, Head(b), 0), <<0>> \o BigMulRaw(a, Tail(b)))

BigMul(a, b) == IF a = <<>> \/ b = <<>> THEN <<>> ELSE Trim(BigMulRaw(a, b))

BigShl(a, k) ==
    IF a = <<>> THEN <<>>
    ELSE [i \in 1 .. k \div LimbBits |-> 0] \o Trim(BigMulSmallC(a, Pow2(k % LimbBits), 0))

\* The quotient limbs 1 .. i of a by the small k, r the remainder of the limbs above.
RECURSIVE BigDivSmallFrom(_, _, _, _)
BigDivSmallFrom(a, k, i, r) ==
    IF i = 0 THEN <<>>
    ELSE LET x == r * Base + a[i]
         IN  Append(BigDivSmallFrom(a, k, i - 1, x % k), x \div k)

RECURSIVE BigModSmallFrom(_, _, _, _)
BigModSmallFrom(a, k, i, r) ==
    IF i = 0 THEN r ELSE BigModSmallFrom(a, k, i - 1, (r * Base + a[i]) % k)

BigDivSmall(a, k) == Trim(BigDivSmallFrom(a, k, Len(a), 0))
BigModSmall(a, k) == BigModSmallFrom(a, k, Len(a), 0)

BigShr(a, k) ==
    IF k \div LimbBits >= Len(a) THEN <<>>
    ELSE BigDivSmall(SubSeq(a, k \div LimbBits + 1, Len(a)), Pow2(k % LimbBits))

RECURSIVE LimbLen(_)
LimbLen(x) == IF x = 0 THEN 0 ELSE 1 + LimbLen(x \div 2)

BitLen(a) == IF a = <<>> THEN 0 ELSE LimbBits * (Len(a) - 1) + LimbLen(a[Len(a)])

RECURSIVE LimbZeros(_)
LimbZeros(x) == IF x % 2 = 1 THEN 0 ELSE 1 + LimbZeros(x \div 2)

RECURSIVE TrailingZeros(_)
TrailingZeros(a) == IF Head(a) = 0 THEN LimbBits + TrailingZeros(Tail(a)) ELSE LimbZeros(Head(a))

BigMulSmall(a, k) == Trim(BigMulSmallC(a, k, 0))

\* The largest q with q * D <= r, from the estimate qhat >= q.
RECURSIVE BigDigit(_, _, _)
BigDigit(r, D, qhat) ==
    IF BigCmp(BigMulSmall(D, qhat), r) <= 0 THEN qhat ELSE BigDigit(r, D, qhat - 1)

\* One step of long division: the remainder r < D takes the next limb x.
\* D has its top bit set, so the two-limb estimate is at most 2 too large.
\* Long division, one limb of the quotient at a time: the limb is estimated
\* from the two top limbs of the remainder and the top limb of the divisor, and
\* lowered until its product with the divisor fits.
Estimate(r1, D, n) ==
    ((IF Len(r1) > n THEN r1[n + 1] * Base ELSE 0) + (IF Len(r1) >= n THEN r1[n] ELSE 0)) \div D[n]

BigDivStepWith(r1, D, q) == [q |-> q, r |-> BigSub(r1, BigMulSmall(D, q))]

BigDivStepAt(r1, D, est) == BigDivStepWith(r1, D, BigDigit(r1, D, IF est >= Base THEN Base - 1 ELSE est))

BigDivStep(r, D, x) == BigDivStepAt(Trim(<<x>> \o r), D, Estimate(Trim(<<x>> \o r), D, Len(D)))

RECURSIVE BigDivModFrom(_, _, _, _, _), BigDivModNext(_, _, _, _, _)
BigDivModFrom(N, D, i, r, q) ==
    IF i = 0 THEN [q |-> q, r |-> r]
    ELSE BigDivModNext(N, D, i, q, BigDivStep(r, D, N[i]))

BigDivModNext(N, D, i, q, st) ==
    IF st.q = 0 /\ q = <<>> THEN BigDivModFrom(N, D, i - 1, st.r, <<>>)
    ELSE BigDivModFrom(N, D, i - 1, st.r, <<st.q>> \o q)

BigDivModLimbs(N, D) == BigDivModFrom(N, D, Len(N), <<>>, <<>>)

BigDivModShifted(N, D, s) == BigDivModLimbs(BigShl(N, s), BigShl(D, s))

\* N \div D, and N % D scaled by the power of two that brings the top limb of D
\* to full width; the remainder is only ever compared with zero.
BigDivMod(N, D) == BigDivModShifted(N, D, LimbBits - LimbLen(D[Len(D)]))

\* The doubles.
Zero == [t |-> "num", s |-> 1, m |-> <<>>, e |-> 0]

\* s * M * 2^e, M # 0 of at most 53 bits, with the trailing zero bits moved to e
\* s * M * 2^e with the mantissa made odd.
NormalizedBy(s, M, e, z) == [t |-> "num", s |-> s, m |-> BigShr(M, z), e |-> e + z]

Normalized(s, M, e) == NormalizedBy(s, M, e, TrailingZeros(M))

\* Round to nearest, ties to even: q holds the bits kept and one more, sticky
\* says that a bit below them is set.
HalfUp(q, sticky) ==
    BigShr(IF q[1] % 2 = 1 /\ (sticky \/ q[1] % 4 = 3) THEN BigAdd(q, <<1>>) ELSE q, 1)

\* s * M * 2^e rounded to MantissaBits bits, M having k bits more than that.
RoundedBy(s, M, e, k) ==
    Normalized(s, IF k <= 0 THEN M ELSE HalfUp(BigShr(M, k - 1), TrailingZeros(M) < k - 1),
               IF k <= 0 THEN e ELSE e + k)

Rounded(s, M, e) == IF M = <<>> THEN Zero ELSE RoundedBy(s, M, e, BitLen(M) - MantissaBits)

\* The float of the integer k.
Num(k) == IF k = 0 THEN Zero ELSE Normalized(IF k < 0 THEN -1 ELSE 1, BigOfInt(IF k < 0 THEN -k ELSE k), 0)
IsNum(v) == v.t = "num"
IsZero(v) == IsNum(v) /\ v.m = <<>>

\* -a, a + b, a - b, a * b, a / b (b # 0), a < b on floats.
NumNeg(a) == IF a.m = <<>> THEN a ELSE [a EXCEPT !.s = -a.s]

AddCompared(sa, A, sb, B, e, c) ==
    Rounded(IF sa = sb \/ c > 0 THEN sa ELSE sb,
            IF sa = sb THEN BigAdd(A, B)
            ELSE BigSub(IF c >= 0 THEN A ELSE B, IF c >= 0 THEN B ELSE A),
            e)

AddAligned(sa, A, sb, B, e) == AddCompared(sa, A, sb, B, e, BigCmp(A, B))

AddFrom(a, b, e) == AddAligned(a.s, BigShl(a.m, a.e - e), b.s, BigShl(b.m, b.e - e), e)

NumAdd(a, b) ==
    IF a.m = <<>> THEN b
    ELSE IF b.m = <<>> THEN a
    ELSE AddFrom(a, b, IF a.e < b.e THEN a.e ELSE b.e)

NumSub(a, b) == NumAdd(a, NumNeg(b))

NumMul(a, b) == Rounded(a.s * b.s, BigMul(a.m, b.m), a.e + b.e)

\* The quotient is computed to three bits more than the mantissa holds; a
\* remainder is recorded in one more bit below them, which decides the rounding.
QuotientBits == MantissaBits + 3

DivRounded(s, qr, e) ==
    Rounded(s, IF qr.r = <<>> THEN qr.q ELSE BigMulSmallC(qr.q, 2, 1),
            IF qr.r = <<>> THEN e ELSE e - 1)

DivShifted(a, b, k) == DivRounded(a.s * b.s, BigDivMod(BigShl(a.m, k), b.m), a.e - b.e - k)

NumDiv(a, b) ==
    IF a.m = <<>> THEN Zero
    ELSE DivShifted(a, b, QuotientBits + BitLen(b.m) - BitLen(a.m))

LessFrom(a, b, e) == BigCmp(BigShl(a.m, a.e - e), BigShl(b.m, b.e - e)) * a.s < 0

NumLess(a, b) ==
    IF a.m = <<>> THEN b.m # <<>> /\ b.s = 1
    ELSE IF b.m = <<>> THEN a.s = -1
    ELSE IF a.s # b.s THEN a.s < b.s
    ELSE LessFrom(a, b, IF a.e < b.e THEN a.e ELSE b.e)
\* int(v): truncation toward zero.
NumInt(v) ==
    IF v.m = <<>> THEN 0
    ELSE v.s * BigToInt(IF v.e >= 0 THEN BigShl(v.m, v.e) ELSE BigShr(v.m, -v.e))

\* The float n / d of two integers, d # 0: float("0.5") is Frac(1, 2).
Frac(n, d) == NumDiv(Num(n), Num(d))

\* A function definition as stored by DEFINE.
FuncDef(params, body) == [t |-> "fn", params |-> params, body |-> body]

-----------------------------------------------------------------------------
(* Tokens *)

COMMAND_KEYWORDS ==
    {"SET", "DEFINE", "CALL", "IF", "WHILE", "MOVE", "TURN", "DRAW", "COLOR", "}", "{"}

\* token.replace('.', '', 1).isdigit() and float(token), for the literals in use.
NumberTokens ==
    {"0", "1", "2", "3", "4", "5", "6", "7", "8", "9", "10", "15", "20", "50",
     "90", "99", "100", "180", "200", "0.5", "2.5"}

float(token) ==
    CASE token = "0" -> Num(0) [] token = "1" -> Num(1) [] token = "2" -> Num(2)
      [] token = "3" -> Num(3) [] token = "4" -> Num(4) [] token = "5" -> Num(5)
      [] token = "6" -> Num(6) [] token = "7" -> Num(7) [] token = "8" -> Num(8)
      [] token = "9" -> Num(9) [] token = "10" -> Num(10) [] token = "15" -> Num(15)
      [] token = "20" -> Num(20) [] token = "50" -> Num(50) [] token = "90" -> Num(90)
      [] token = "99" -> Num(99) [] token = "100" -> Num(100) [] token = "180" -> Num(180)
      [] token = "200" -> Num(200) [] token = "0.5" -> Frac(1, 2) [] token = "2.5" -> Frac(5, 2)

isdigit(token) == token \in NumberTokens

\* token.isalpha(), for the words in use.
AlphaTokens ==
    {"SET", "DEFINE", "CALL", "IF", "WHILE", "MOVE", "TURN", "DRAW", "COLOR",
     "Forward", "Backward", "Right", "Left", "AT", "Circle", "Square", "Star", "Blob",
     "Red", "Blue", "Green", "Black", "Random", "Pink", "Up",
     "a", "b", "c", "f", "g", "h", "i", "n", "p", "q", "r", "u", "v", "w", "x", "y", "z",
     "rec", "after", "speed"}

isalpha(token) == token \in AlphaTokens

\* tokenize works on the characters of the source: here a string is the
\* sequence of its characters and a token the sequence of its own.

Whitespace == {" ", "\n"}

\* code.replace(ch, f" {ch} ")
RECURSIVE replace(_, _)
replace(code, ch) ==
    IF code = <<>> THEN <<>>
    ELSE (IF Head(code) = ch THEN <<" ", ch, " ">> ELSE <<Head(code)>>)
             \o replace(Tail(code), ch)

\* for ch in chars: code = code.replace(ch, f" {ch} ")
RECURSIVE replace_each(_, _)
replace_each(code, chs) ==
    IF chs = <<>> THEN code ELSE replace_each(replace(code, Head(chs)), Tail(chs))

\* code.split(): the maximal runs of characters other than whitespace.
RECURSIVE split_loop(_, _, _)
split_loop(code, word, out) ==
    IF code = <<>> THEN (IF word = <<>> THEN out ELSE Append(out, word))
    ELSE IF Head(code) \in Whitespace
    THEN split_loop(Tail(code), <<>>, IF word = <<>> THEN out ELSE Append(out, word))
    ELSE split_loop(Tail(code), Append(word, Head(code)), out)

split(code) == split_loop(code, <<>>, <<>>)

\* The loop that combines "!" "=" into "!=".
RECURSIVE combine_loop(_, _, _)
combine_loop(toks, i, combined) ==
    IF i >= Len(toks) THEN combined
    ELSE IF At(toks, i) = <<"!">> /\ i + 1 < Len(toks) /\ At(toks, i + 1) = <<"=">>
    THEN combine_loop(toks, i + 2, Append(combined, <<"!", "=">>))
    ELSE combine_loop(toks, i + 1, Append(combined, At(toks, i)))

\* Mutant: the pairs "!" "=" are left as they are.
tokenize_unmerged(code) ==
    split(replace_each(replace_each(code, <<"{", "}", "(", ")", ",">>),
                       <<"+", "-", "*", "/", "=", ">", "<", "!">>))

tokenize(code) ==
    combine_loop(split(replace_each(replace_each(code, <<"{", "}", "(", ")", ",">>),
                                    <<"+", "-", "*", "/", "=", ">", "<", "!">>)),
                 0, <<>>)

-----------------------------------------------------------------------------
(* Expression parser.  A parse function returns [err, node, i]: err is      *)
(* "none" and (node, i) the returned pair, or err names the exception.      *)

Ok(node, i) == [err |-> "none", node |-> node, i |-> i]
Raise(e) == [err |-> e, node |-> <<>>, i |-> -1]

\* Expression nodes: float literal, variable name, {"op", "left", "right"}.
Lit(token) == [k |-> "lit", v |-> float(token)]
Var(token) == [k |-> "var", name |-> token]
Bin(op, l, r) == [k |-> "bin", op |-> op, left |-> l, right |-> r]

\* r unless it completed; then what follows it, F(r).  An exception raised by a
\* call propagates through the caller.
Try(r, F(_)) == IF r.err # "none" THEN r ELSE F(r)

RECURSIVE parse_expression(_, _, _), parse_expression_loop(_, _, _, _)
RECURSIVE parse_term(_, _, _), parse_term_loop(_, _, _, _)
RECURSIVE parse_factor(_, _, _)

parse_factor(toks, i, stop_tokens) ==
    IF i >= Len(toks) THEN Raise("Unexpected end of tokens in expression")
    ELSE IF At(toks, i) \in stop_tokens THEN Raise("Unexpected token in expression")
    ELSE IF At(toks, i) = "("
    THEN Try(parse_expression(toks, i + 1, stop_tokens \cup {")"}),
             LAMBDA r : IF r.i >= Len(toks) \/ At(toks, r.i) # ")"
                        THEN Raise("Expected )")
                        ELSE Ok(r.node, r.i + 1))
    ELSE IF isdigit(At(toks, i)) THEN Ok(Lit(At(toks, i)), i + 1)
    ELSE IF isalpha(At(toks, i)) \/ At(toks, i) \in COMMAND_KEYWORDS
    THEN Ok(Var(At(toks, i)), i + 1)
    ELSE Raise("Unexpected token in expression")

\* Mutant: + and - are taken at the precedence of * and /.
parse_term_loop_flat(toks, node, i, stop_tokens) ==
    IF i < Len(toks) /\ At(toks, i) \in {"*", "/", "+", "-"} /\ At(toks, i) \notin stop_tokens
    THEN Try(parse_factor(toks, i + 1, stop_tokens),
             LAMBDA r : parse_term_loop(toks, Bin(At(toks, i), node, r.node), r.i,
                                        stop_tokens))
    ELSE Ok(node, i)

\* The while loop of parse_term, entered with (node, i).
parse_term_loop(toks, node, i, stop_tokens) ==
    IF i < Len(toks) /\ At(toks, i) \in {"*", "/"} /\ At(toks, i) \notin stop_tokens
    THEN Try(parse_factor(toks, i + 1, stop_tokens),
             LAMBDA r : parse_term_loop(toks, Bin(At(toks, i), node, r.node), r.i,
                                        stop_tokens))
    ELSE Ok(node, i)

parse_term(toks, i, stop_tokens) ==
    Try(parse_factor(toks, i, stop_tokens),
        LAMBDA r : parse_term_loop(toks, r.node, r.i, stop_tokens))

\* Mutant: + and - are taken without a look at the stop tokens.
parse_expression_loop_greedy(toks, node, i, stop_tokens) ==
    IF i < Len(toks) /\ At(toks, i) \in {"+", "-"}
    THEN Try(parse_term(toks, i + 1, stop_tokens),
             LAMBDA r : parse_expression_loop(toks, Bin(At(toks, i), node, r.node), r.i,
                                              stop_tokens))
    ELSE Ok(node, i)

\* The while loop of parse_expression, entered with (node, i).
parse_expression_loop(toks, node, i, stop_tokens) ==
    IF i < Len(toks) /\ At(toks, i) \in {"+", "-"} /\ At(toks, i) \notin stop_tokens
    THEN Try(parse_term(toks, i + 1, stop_tokens),
             LAMBDA r : parse_expression_loop(toks, Bin(At(toks, i), node, r.node), r.i,
                                              stop_tokens))
    ELSE Ok(node, i)

parse_expression(toks, i, stop_tokens) ==
    Try(parse_term(toks, i, stop_tokens),
        LAMBDA r : parse_expression_loop(toks, r.node, r.i, stop_tokens))

parse_full_expression(token_list) ==
    Try(parse_expression(token_list, 0, {}),
        LAMBDA r : IF r.i # Len(token_list) THEN Raise("Extra tokens in expression") ELSE r)

-----------------------------------------------------------------------------
(* Evaluator.  An evaluation returns [err, v].                              *)

Val(v) == [err |-> "none", v |-> v]
Fail(e) == [err |-> e, v |-> Num(0)]

\* symbols.get(name, 0)
Lookup(env, name) == IF name \in DOMAIN env THEN env[name] ELSE Num(0)

\* Mutant: the lookup inserts the default under a missing name.
AfterLookupInserting(env, name) ==
    IF name \in DOMAIN env THEN env
    ELSE [x \in DOMAIN env \cup {name} |-> IF x = name THEN Num(0) ELSE env[x]]

\* The environment after a lookup: dict.get leaves the dict as it is.
AfterLookup(env, name) == env

\* left <op> right on Python values: arithmetic on a dict raises TypeError.
Arith(op, left, right) ==
    IF op = "/" /\ IsZero(right) THEN Val(Num(0))
    ELSE IF ~(IsNum(left) /\ IsNum(right)) THEN Fail("TypeError")
    ELSE CASE op = "+" -> Val(NumAdd(left, right))
           [] op = "-" -> Val(NumSub(left, right))
           [] op = "*" -> Val(NumMul(left, right))
           [] op = "/" -> Val(NumDiv(left, right))

RECURSIVE eval_expr(_, _)
eval_expr(expr, env) ==
    IF expr.k = "bin"
    THEN Try(eval_expr(expr.left, env),
             LAMBDA left : Try(eval_expr(expr.right, env),
                               LAMBDA right : Arith(expr.op, left.v, right.v)))
    ELSE IF expr.k = "lit" THEN Val(expr.v)
    ELSE Val(Lookup(env, expr.name))

\* The variable names an evaluation of expr looks up, and the environment after it.
RECURSIVE NamesOf(_)
NamesOf(expr) ==
    IF expr.k = "bin" THEN NamesOf(expr.left) \cup NamesOf(expr.right)
    ELSE IF expr.k = "var" THEN {expr.name} ELSE {}

RECURSIVE AfterLookups(_, _)
AfterLookups(env, names) ==
    IF names = {} THEN env
    ELSE LET nm == CHOOSE x \in names : TRUE
         IN  AfterLookups(AfterLookup(env, nm), names \ {nm})

AfterEval(expr, env) == AfterLookups(env, NamesOf(expr))

\* Mutant: > and < also hold of equal numbers.
CompareOrEqual(op, left, right) ==
    CASE op = "=" -> [err |-> "none", v |-> left = right]
      [] op = "!=" -> [err |-> "none", v |-> left # right]
      [] op \in {">", "<"} ->
            IF ~(IsNum(left) /\ IsNum(right)) THEN [err |-> "TypeError", v |-> FALSE]
            ELSE [err |-> "none",
                  v |-> IF op = ">" THEN ~NumLess(left, right) ELSE ~NumLess(right, left)]
      [] OTHER -> [err |-> "none", v |-> FALSE]

\* Python's ordering and equality on values.
Compare(op, left, right) ==
    CASE op = "=" -> [err |-> "none", v |-> left = right]
      [] op = "!=" -> [err |-> "none", v |-> left # right]
      [] op \in {">", "<"} ->
            IF ~(IsNum(left) /\ IsNum(right)) THEN [err |-> "TypeError", v |-> FALSE]
            ELSE [err |-> "none",
                  v |-> IF op = ">" THEN NumLess(right, left) ELSE NumLess(left, right)]
      [] OTHER -> [err |-> "none", v |-> FALSE]

eval_condition(cond, env) ==
    Try(eval_expr(cond.left, env),
        LAMBDA left : Try(eval_expr(cond.right, env),
                          LAMBDA right : Compare(cond.op, left.v, right.v)))

-----------------------------------------------------------------------------
(* Condition parser *)

parse_condition(toks, i) ==
    Try(parse_expression(toks, i, {">", "<", "=", "!="}),
        LAMBDA l :
            IF l.i >= Len(toks) THEN Raise("Expected operator in condition")
            ELSE IF At(toks, l.i) \notin {">", "<", "=", "!="}
            THEN Raise("Expected comparison operator")
            ELSE Try(parse_expression(toks, l.i + 1, {"{"}),
                     LAMBDA r : Ok([left |-> l.node, op |-> At(toks, l.i), right |-> r.node],
                                   r.i)))

-----------------------------------------------------------------------------
(* Block matcher *)

\* The while loop of find_block_end, entered with (i, depth).
RECURSIVE find_block_end_loop(_, _, _)
find_block_end_loop(toks, i, depth) ==
    IF i < Len(toks) /\ depth > 0
    THEN find_block_end_loop(toks, i + 1,
             IF At(toks, i) = "{" THEN depth + 1
             ELSE IF At(toks, i) = "}" THEN depth - 1 ELSE depth)
    ELSE i

\* Mutant: the first closing brace ends the block, nested or not.
RECURSIVE find_first_close(_, _)
find_first_close(toks, start) ==
    IF start >= Len(toks) THEN start
    ELSE IF At(toks, start) = "}" THEN start + 1
    ELSE find_first_close(toks, start + 1)

find_block_end(toks, start) == find_block_end_loop(toks, start, 1)

\* Mutant: the slice runs to block_end, so the token before it is kept.
BlockBodyWhole(toks, block_start) == Slice(toks, block_start, find_block_end(toks, block_start))

\* tokens[block_start:block_end - 1]
BlockBody(toks, block_start) == Slice(toks, block_start, find_block_end(toks, block_start) - 1)

-----------------------------------------------------------------------------
(* Environment *)

EmptyEnv == [x \in {} |-> Num(0)]

\* symbols[name] = v
Bind(env, name, v) == [x \in DOMAIN env \cup {name} |-> IF x = name THEN v ELSE env[x]]

\* Mutant: the body gets a scope of its own, holding the parameters only.
OverlayIsolated(env, scope) == scope

\* symbols.update(scope)
Overlay(env, scope) ==
    [x \in DOMAIN env \cup DOMAIN scope |-> IF x \in DOMAIN scope THEN scope[x] ELSE env[x]]

-----------------------------------------------------------------------------
(* Cursor and drawing primitives *)

WIDTH == 800
HEIGHT == 600
White == <<255, 255, 255>>

COLORS == [Red |-> <<255, 0, 0>>, Blue |-> <<0, 0, 255>>, Green |-> <<0, 255, 0>>,
           Black |-> <<0, 0, 0>>]

InitCursor == [x |-> Num(WIDTH \div 2), y |-> Num(HEIGHT \div 2), angle |-> Num(0),
               color |-> White]

\* (math.cos(r), math.sin(r)) for r = math.radians(angle), as the C library of
\* the build returns them, for the headings 0, 0.5, 1, ..., 720 degrees: row
\* 2 * angle + 1 holds sign, four mantissa limbs and exponent of the cosine,
\* then of the sine.  Only cos 0, sin 0 and cos 180, cos 360, ... are whole
\* numbers: cos 90 is 6.123233995736766e-17 and sin 180 is
\* 1.2246467991473532e-16.
MaxHeading == 720

CosSinTable ==
    <<<<1, 1, 0, 0, 0, 0, 1, 0, 0, 0, 0, 0>>,
      <<1, 18893, 19251, 32448, 255, -53, 1, 19489, 2346, 31967, 142, -59>>,
      <<1, 22469, 6133, 32129, 127, -52, 1, 28303, 11145, 15894, 71, -57>>,
      <<1, 17013, 14206, 29893, 255, -53, 1, 19089, 1825, 14469, 214, -58>>,
      <<1, 1383, 29054, 27657, 255, -53, 1, 23591, 5103, 31075, 142, -57>>,
      <<1, 17911, 29620, 24783, 255, -53, 1, 19985, 2258, 21791, 178, -57>>,
      <<1, 26141, 23077, 21271, 255, -53, 1, 25735, 18671, 6030, 107, -56>>,
      <<1, 2853, 25479, 24944, 127, -52, 1, 8909, 8981, 1796, 250, -57>>,
      <<1, 32763, 29040, 22550, 127, -52, 1, 18981, 23386, 28103, 17, -53>>,
      <<1, 24751, 23628, 6908, 255, -53, 1, 3657, 25715, 22420, 160, -56>>,
      <<1, 2769, 13336, 16807, 127, -52, 1, 16513, 14530, 8109, 89, -55>>,
      <<1, 19411, 8401, 13458, 127, -52, 1, 7595, 14626, 17580, 24, -53>>,
      <<1, 13283, 5368, 9791, 127, -52, 1, 5595, 19870, 16992, 53, -54>>,
      <<1, 27735, 26774, 11612, 254, -53, 1, 27893, 2526, 27531, 231, -56>>,
      <<1, 16011, 19268, 3008, 254, -53, 1, 25299, 6302, 19281, 249, -56>>,
      <<1, 26779, 9688, 26538, 253, -53, 1, 23085, 8685, 11589, 8, -51>>,
      <<1, 19005, 10544, 24717, 126, -52, 1, 7705, 11547, 16818, 142, -55>>,
      <<1, 27335, 19525, 9732, 63, -51, 1, 23927, 27351, 11692, 151, -55>>,
      <<1, 30999, 18967, 6948, 63, -51, 1, 21365, 20304, 6189, 160, -55>>,
      <<1, 25529, 21091, 8013, 126, -52, 1, 13283, 21876, 286, 169, -55>>,
      <<1, 7191, 6402, 3630, 252, -53, 1, 29577, 31766, 26729, 177, -55>>,
      <<1, 19531, 32231, 23371, 251, -53, 1, 15919, 17960, 19961, 186, -55>>,
      <<1, 23393, 26936, 21242, 125, -52, 1, 25167, 15084, 12727, 195, -55>>,
      <<1, 29199, 7096, 28204, 250, -53, 1, 22795, 29464, 2502, 102, -54>>,
      <<1, 29697, 28873, 31335, 1, -46, 1, 11387, 11330, 14771, 106, -54>>,
      <<1, 14939, 8121, 31650, 124, -52, 1, 9585, 10092, 20780, 221, -55>>,
      <<1, 1807, 17053, 14376, 249, -53, 1, 18037, 28059, 11464, 230, -55>>,
      <<1, 3559, 1527, 15183, 124, -52, 1, 31691, 19241, 1574, 239, -55>>,
      <<1, 14885, 16115, 12966, 248, -53, 1, 14621, 26057, 23855, 247, -55>>,
      <<1, 31239, 17059, 30241, 123, -52, 1, 7543, 13438, 6375, 128, -54>>,
      <<1, 16149, 3729, 9077, 247, -53, 1, 12393, 14386, 9247, 8, -50>>,
      <<1, 15873, 4221, 22590, 246, -53, 1, 28711, 16215, 3383, 17, -51>>,
      <<1, 15607, 8077, 30229, 1, -46, 1, 3625, 14949, 4139, 141, -54>>,
      <<1, 599, 13772, 27370, 3, -47, 1, 3161, 22818, 11598, 36, -52>>,
      <<1, 23327, 23799, 26673, 244, -53, 1, 31417, 29664, 23323, 18, -51>>,
      <<1, 22497, 21062, 4965, 244, -53, 1, 21519, 2469, 32135, 76, -53>>,
      <<1, 21759, 9864, 15416, 243, -53, 1, 26959, 28255, 7100, 158, -54>>,
      <<1, 4617, 27858, 22698, 60, -51, 1, 14209, 24848, 15072, 162, -54>>,
      <<1, 13515, 22525, 1728, 242, -53, 1, 13175, 26624, 22043, 41, -52>>,
      <<1, 32415, 31237, 10361, 241, -53, 1, 15033, 25547, 29789, 170, -54>>,
      <<1, 2887, 8489, 4598, 60, -51, 1, 3061, 26900, 3745, 175, -54>>,
      <<1, 10271, 31294, 31031, 59, -51, 1, 28955, 28841, 10032, 179, -54>>,
      <<1, 14341, 7679, 32656, 238, -53, 1, 13519, 4071, 28544, 45, -52>>,
      <<1, 13529, 4163, 3062, 119, -52, 1, 6279, 18391, 29889, 46, -52>>,
      <<1, 31083, 24165, 21950, 29, -50, 1, 5761, 24011, 26167, 191, -54>>,
      <<1, 18083, 20274, 8407, 118, -52, 1, 10595, 19805, 30602, 195, -54>>,
      <<1, 26223, 12376, 21274, 235, -53, 1, 32683, 17713, 1780, 200, -54>>,
      <<1, 20037, 6047, 11335, 29, -50, 1, 663, 26699, 1306, 51, -52>>,
      <<1, 32661, 24062, 28430, 233, -53, 1, 6865, 16908, 8164, 208, -54>>,
      <<1, 10591, 6497, 15566, 116, -52, 1, 10963, 3466, 10582, 212, -54>>,
      <<1, 22375, 24667, 484, 232, -53, 1, 6227, 28271, 12469, 216, -54>>,
      <<1, 17851, 4488, 2026, 231, -53, 1, 27195, 27222, 6908, 110, -53>>,
      <<1, 7269, 15190, 1495, 115, -52, 1, 16569, 30383, 1826, 28, -51>>,
      <<1, 23421, 25316, 18074, 114, -52, 1, 10065, 8923, 3713, 57, -52>>,
      <<1, 11373, 14970, 3200, 228, -53, 1, 8815, 11819, 14876, 0, -45>>,
      <<1, 22385, 5612, 2450, 227, -53, 1, 2791, 909, 18085, 29, -51>>,
      <<1, 9441, 21467, 8333, 28, -50, 1, 20601, 26696, 12105, 240, -54>>,
      <<1, 2965, 8579, 32020, 224, -53, 1, 10161, 19240, 10003, 244, -54>>,
      <<1, 7395, 30675, 31172, 111, -52, 1, 8429, 23519, 7291, 248, -54>>,
      <<1, 12257, 12350, 13288, 111, -52, 1, 10095, 14134, 3960, 252, -54>>,
      <<1, 19627, 20656, 23019, 221, -53, 1, 32767, 32767, 32767, 255, -54>>,
      <<1, 1353, 20780, 9454, 110, -52, 1, 13845, 12184, 30468, 129, -53>>,
      <<1, 30063, 7798, 23508, 109, -52, 1, 24339, 16891, 27844, 131, -53>>,
      <<1, 5141, 8245, 13453, 3, -47, 1, 19367, 29818, 14414, 33, -51>>,
      <<1, 10565, 1435, 3287, 217, -53, 1, 28309, 16044, 27186, 67, -52>>,
      <<1, 31785, 469, 16196, 13, -49, 1, 6747, 25984, 17979, 137, -53>>,
      <<1, 3063, 21591, 22115, 53, -51, 1, 30493, 12000, 14011, 139, -53>>,
      <<1, 3277, 9112, 15557, 213, -53, 1, 30965, 28714, 21691, 17, -50>>,
      <<1, 15273, 26324, 1913, 53, -51, 1, 32019, 2083, 5026, 143, -53>>,
      <<1, 2553, 25213, 15995, 105, -52, 1, 15773, 31869, 8191, 36, -51>>,
      <<1, 1863, 12843, 23033, 209, -53, 1, 2351, 15903, 11614, 18, -50>>,
      <<1, 13587, 31136, 13551, 208, -53, 1, 16527, 11959, 5406, 37, -51>>,
      <<1, 32405, 26341, 29115, 25, -50, 1, 11567, 1141, 7750, 75, -52>>,
      <<1, 1161, 3009, 25800, 205, -53, 1, 26409, 6144, 8999, 152, -53>>,
      <<1, 7813, 1873, 3692, 51, -51, 1, 24411, 5205, 1059, 77, -52>>,
      <<1, 4681, 2903, 17997, 101, -52, 1, 2549, 16277, 30194, 77, -52>>,
      <<1, 25553, 10216, 23945, 201, -53, 1, 18745, 25467, 19966, 157, -53>>,
      <<1, 7317, 8564, 2848, 50, -51, 1, 15623, 20660, 22343, 79, -52>>,
      <<1, 13413, 19781, 28464, 24, -50, 1, 31421, 2192, 3474, 161, -53>>,
      <<1, 1249, 1255, 12582, 49, -51, 1, 21433, 23324, 23232, 40, -51>>,
      <<1, 20537, 17822, 3518, 196, -53, 1, 1415, 10526, 4535, 41, -51>>,
      <<1, 28435, 18555, 21755, 194, -53, 1, 30583, 17920, 4238, 83, -52>>,
      <<1, 7223, 26946, 6738, 193, -53, 1, 5109, 16540, 32367, 41, -51>>,
      <<1, 7071, 31164, 24007, 191, -53, 1, 22095, 27440, 20667, 169, -53>>,
      <<1, 24417, 10291, 4015, 95, -52, 1, 16763, 9656, 13506, 21, -50>>,
      <<1, 29601, 21018, 6086, 47, -51, 1, 8359, 13773, 31165, 172, -53>>,
      <<1, 13505, 24776, 20095, 93, -52, 1, 7211, 29465, 19384, 174, -53>>,
      <<1, 22221, 8246, 22801, 185, -53, 1, 16583, 5738, 1792, 44, -51>>,
      <<1, 19769, 19786, 4947, 184, -53, 1, 1841, 1564, 3753, 11, -49>>,
      <<1, 6051, 6943, 9701, 91, -52, 1, 6585, 17396, 23474, 89, -52>>,
      <<1, 15309, 19710, 633, 181, -53, 1, 20211, 13119, 8350, 45, -51>>,
      <<1, 6585, 17396, 23474, 89, -52, 1, 6051, 6943, 9701, 91, -52>>,
      <<1, 1841, 1564, 3753, 11, -49, 1, 10663, 14761, 618, 23, -50>>,
      <<1, 797, 22954, 7168, 176, -53, 1, 22221, 8246, 22801, 185, -53>>,
      <<1, 7211, 29465, 19384, 174, -53, 1, 13505, 24776, 20095, 93, -52>>,
      <<1, 8359, 13773, 31165, 172, -53, 1, 20101, 18539, 24346, 188, -53>>,
      <<1, 16763, 9656, 13506, 21, -50, 1, 24417, 10291, 4015, 95, -52>>,
      <<1, 22095, 27440, 20667, 169, -53, 1, 3535, 31966, 28387, 95, -52>>,
      <<1, 5109, 16540, 32367, 41, -51, 1, 7223, 26946, 6738, 193, -53>>,
      <<1, 30583, 17920, 4238, 83, -52, 1, 28435, 18555, 21755, 194, -53>>,
      <<1, 5661, 9336, 18141, 164, -53, 1, 20537, 17822, 3518, 196, -53>>,
      <<1, 21433, 23324, 23232, 40, -51, 1, 1249, 1255, 12582, 49, -51>>,
      <<1, 15711, 1096, 18121, 80, -52, 1, 13413, 19781, 28464, 24, -50>>,
      <<1, 15623, 20660, 22343, 79, -52, 1, 7317, 8564, 2848, 50, -51>>,
      <<1, 18745, 25467, 19966, 157, -53, 1, 12777, 21492, 28356, 100, -52>>,
      <<1, 2549, 16277, 30194, 77, -52, 1, 4681, 2903, 17997, 101, -52>>,
      <<1, 16055, 10411, 2118, 154, -53, 1, 7813, 1873, 3692, 51, -51>>,
      <<1, 13205, 19456, 4499, 76, -52, 1, 1161, 3009, 25800, 205, -53>>,
      <<1, 11567, 1141, 7750, 75, -52, 1, 32405, 26341, 29115, 25, -50>>,
      <<1, 16527, 11959, 5406, 37, -51, 1, 13587, 31136, 13551, 208, -53>>,
      <<1, 18809, 28920, 27379, 146, -53, 1, 1863, 12843, 23033, 209, -53>>,
      <<1, 15773, 31869, 8191, 36, -51, 1, 2553, 25213, 15995, 105, -52>>,
      <<1, 32393, 1041, 18897, 71, -52, 1, 28325, 6993, 7655, 212, -53>>,
      <<1, 30965, 28714, 21691, 17, -50, 1, 3277, 9112, 15557, 213, -53>>,
      <<1, 30493, 12000, 14011, 139, -53, 1, 3063, 21591, 22115, 53, -51>>,
      <<1, 6747, 25984, 17979, 137, -53, 1, 31785, 469, 16196, 13, -49>>,
      <<1, 28309, 16044, 27186, 67, -52, 1, 10565, 1435, 3287, 217, -53>>,
      <<1, 11933, 20970, 24891, 133, -53, 1, 5141, 8245, 13453, 3, -47>>,
      <<1, 24339, 16891, 27844, 131, -53, 1, 30063, 7798, 23508, 109, -52>>,
      <<1, 6923, 6092, 31618, 64, -52, 1, 2705, 8792, 18909, 220, -53>>,
      <<1, 1, 0, 0, 128, -53, 1, 9813, 26712, 27893, 110, -52>>,
      <<1, 5047, 7067, 1980, 126, -53, 1, 12257, 12350, 13288, 111, -52>>,
      <<1, 20599, 28143, 3645, 124, -53, 1, 7395, 30675, 31172, 111, -52>>,
      <<1, 10161, 19240, 10003, 244, -54, 1, 2965, 8579, 32020, 224, -53>>,
      <<1, 10301, 29732, 6052, 120, -53, 1, 9991, 7898, 1133, 226, -53>>,
      <<1, 22327, 7272, 13608, 236, -54, 1, 22385, 5612, 2450, 227, -53>>,
      <<1, 24065, 22153, 14520, 232, -54, 1, 19227, 3742, 800, 57, -51>>,
      <<1, 7491, 2925, 14853, 228, -54, 1, 23421, 25316, 18074, 114, -52>>,
      <<1, 1481, 13692, 14615, 224, -54, 1, 7269, 15190, 1495, 115, -52>>,
      <<1, 23183, 6805, 18111, 27, -51, 1, 8925, 2244, 17397, 115, -52>>,
      <<1, 6227, 28271, 12469, 216, -54, 1, 22375, 24667, 484, 232, -53>>,
      <<1, 10965, 3466, 10582, 212, -54, 1, 10591, 6497, 15566, 116, -52>>,
      <<1, 6865, 16908, 8164, 208, -54, 1, 32661, 24062, 28430, 233, -53>>,
      <<1, 2653, 8492, 5227, 204, -54, 1, 20037, 6047, 11335, 29, -50>>,
      <<1, 32725, 8856, 890, 100, -53, 1, 26223, 12376, 21274, 235, -53>>,
      <<1, 10841, 21335, 32226, 48, -52, 1, 18083, 20274, 8407, 118, -52>>,
      <<1, 19245, 14267, 16332, 1, -47, 1, 31083, 24165, 21950, 29, -50>>,
      <<1, 6279, 18391, 29889, 46, -52, 1, 13529, 4163, 3062, 119, -52>>,
      <<1, 27039, 8142, 24320, 91, -53, 1, 14341, 7679, 32656, 238, -53>>,
      <<1, 28955, 28841, 10032, 179, -54, 1, 10271, 31294, 31031, 59, -51>>,
      <<1, 3063, 26900, 3745, 175, -54, 1, 11547, 1188, 18393, 240, -53>>,
      <<1, 15033, 25547, 29789, 170, -54, 1, 32415, 31237, 10361, 241, -53>>,
      <<1, 19933, 8193, 22639, 166, -54, 1, 23141, 11262, 864, 121, -52>>,
      <<1, 4207, 24770, 8821, 1, -47, 1, 4617, 27858, 22698, 60, -51>>,
      <<1, 32405, 26341, 29115, 9, -50, 1, 21759, 9864, 15416, 243, -53>>,
      <<1, 10269, 4939, 31502, 153, -54, 1, 22497, 21062, 4965, 244, -53>>,
      <<1, 31417, 29664, 23323, 18, -51, 1, 23327, 23799, 26673, 244, -53>>,
      <<1, 6323, 12868, 23197, 72, -53, 1, 599, 13772, 27370, 3, -47>>,
      <<1, 3625, 14949, 4139, 141, -54, 1, 15607, 8077, 30229, 1, -46>>,
      <<1, 16541, 32095, 13533, 68, -53, 1, 15873, 4221, 22590, 246, -53>>,
      <<1, 12393, 14386, 9247, 8, -50, 1, 16149, 3729, 9077, 247, -53>>,
      <<1, 25519, 30351, 796, 16, -51, 1, 31239, 17059, 30241, 123, -52>>,
      <<1, 14619, 26057, 23855, 247, -55, 1, 14885, 16115, 12966, 248, -53>>,
      <<1, 32231, 9620, 17171, 119, -54, 1, 3559, 1527, 15183, 124, -52>>,
      <<1, 25401, 14029, 5732, 115, -54, 1, 1807, 17053, 14376, 249, -53>>,
      <<1, 4793, 5046, 26774, 110, -54, 1, 14939, 8121, 31650, 124, -52>>,
      <<1, 11389, 11330, 14771, 106, -54, 1, 127, 25844, 13296, 250, -53>>,
      <<1, 22795, 29464, 2502, 102, -54, 1, 29199, 7096, 28204, 250, -53>>,
      <<1, 25171, 15084, 12727, 195, -55, 1, 23393, 26936, 21242, 125, -52>>,
      <<1, 7959, 25364, 9980, 93, -54, 1, 19531, 32231, 23371, 251, -53>>,
      <<1, 23779, 16133, 14874, 44, -53, 1, 7191, 6402, 3630, 252, -53>>,
      <<1, 13281, 21876, 286, 169, -55, 1, 25529, 21091, 8013, 126, -52>>,
      <<1, 21367, 20304, 6189, 160, -55, 1, 30999, 18967, 6948, 63, -51>>,
      <<1, 30557, 6837, 27499, 37, -53, 1, 27335, 19525, 9732, 63, -51>>,
      <<1, 20237, 5773, 8409, 71, -54, 1, 19005, 10544, 24717, 126, -52>>,
      <<1, 8917, 7899, 21588, 133, -55, 1, 26779, 9688, 26538, 253, -53>>,
      <<1, 22709, 9767, 13012, 62, -54, 1, 16011, 19268, 3008, 254, -53>>,
      <<1, 27901, 2526, 27531, 231, -56, 1, 27735, 26774, 11612, 254, -53>>,
      <<1, 22379, 13944, 2434, 214, -56, 1, 13283, 5368, 9791, 127, -52>>,
      <<1, 30383, 25736, 4785, 98, -55, 1, 6053, 16803, 26916, 254, -53>>,
      <<1, 17025, 11633, 22847, 0, -48, 1, 2769, 13336, 16807, 127, -52>>,
      <<1, 3661, 25715, 22420, 160, -56, 1, 24751, 23628, 6908, 255, -53>>,
      <<1, 20771, 23252, 28221, 142, -56, 1, 32763, 29040, 22550, 127, -52>>,
      <<1, 20841, 4490, 898, 125, -56, 1, 2853, 25479, 24944, 127, -52>>,
      <<1, 18721, 4575, 12061, 214, -57, 1, 26141, 23077, 21271, 255, -53>>,
      <<1, 9993, 17513, 10895, 89, -56, 1, 17911, 29620, 24783, 255, -53>>,
      <<1, 23607, 5103, 31075, 142, -57, 1, 1383, 29054, 27657, 255, -53>>,
      <<1, 19085, 1825, 14469, 214, -58, 1, 17013, 14206, 29893, 255, -53>>,
      <<1, 23863, 22291, 31788, 142, -58, 1, 22469, 6133, 32129, 127, -52>>,
      <<1, 19467, 2346, 31967, 142, -59, 1, 18893, 19251, 32448, 255, -53>>,
      <<1, 23559, 26152, 6296, 141, -106, 1, 1, 0, 0, 0, 0>>,
      <<-1, 19525, 2346, 31967, 142, -59, 1, 18893, 19251, 32448, 255, -53>>,
      <<-1, 30533, 5572, 24331, 35, -56, 1, 22469, 6133, 32129, 127, -52>>,
      <<-1, 25909, 17296, 7234, 107, -57, 1, 17013, 14206, 29893, 255, -53>>,
      <<-1, 23589, 5103, 31075, 142, -57, 1, 1383, 29054, 27657, 255, -53>>,
      <<-1, 19969, 2258, 21791, 178, -57, 1, 17911, 29620, 24783, 255, -53>>,
      <<-1, 18703, 4575, 12061, 214, -57, 1, 26141, 23077, 21271, 255, -53>>,
      <<-1, 10891, 2188, 29724, 3, -51, 1, 5707, 18190, 17121, 255, -53>>,
      <<-1, 10389, 28010, 14110, 71, -55, 1, 32763, 29040, 22550, 127, -52>>,
      <<-1, 25489, 6428, 5605, 40, -54, 1, 24751, 23628, 6908, 255, -53>>,
      <<-1, 263, 29061, 16218, 178, -56, 1, 2769, 13336, 16807, 127, -52>>,
      <<-1, 30379, 25736, 4785, 98, -55, 1, 19411, 8401, 13458, 127, -52>>,
      <<-1, 11193, 6972, 1217, 107, -55, 1, 13283, 5368, 9791, 127, -52>>,
      <<-1, 23357, 25207, 31458, 57, -54, 1, 27735, 26774, 11612, 254, -53>>,
      <<-1, 25291, 6302, 19281, 249, -56, 1, 4003, 4817, 17136, 63, -51>>,
      <<-1, 8913, 7899, 21588, 133, -55, 1, 26779, 9688, 26538, 253, -53>>,
      <<-1, 20235, 5773, 8409, 71, -54, 1, 19005, 10544, 24717, 126, -52>>,
      <<-1, 31663, 19802, 30133, 18, -52, 1, 27335, 19525, 9732, 63, -51>>,
      <<-1, 21363, 20304, 6189, 160, -55, 1, 30999, 18967, 6948, 63, -51>>,
      <<-1, 13285, 21876, 286, 169, -55, 1, 25529, 21091, 8013, 126, -52>>,
      <<-1, 28273, 8066, 7437, 22, -52, 1, 7191, 6402, 3630, 252, -53>>,
      <<-1, 15921, 17960, 19961, 186, -55, 1, 19531, 32231, 23371, 251, -53>>,
      <<-1, 25167, 15084, 12727, 195, -55, 1, 23393, 26936, 21242, 125, -52>>,
      <<-1, 22793, 29464, 2502, 102, -54, 1, 29199, 7096, 28204, 250, -53>>,
      <<-1, 11387, 11330, 14771, 106, -54, 1, 29697, 28873, 31335, 1, -46>>,
      <<-1, 4791, 5046, 26774, 110, -54, 1, 14939, 8121, 31650, 124, -52>>,
      <<-1, 25403, 14029, 5732, 115, -54, 1, 1807, 17053, 14376, 249, -53>>,
      <<-1, 31689, 19241, 1574, 239, -55, 1, 7119, 3054, 30366, 248, -53>>,
      <<-1, 14623, 26057, 23855, 247, -55, 1, 14885, 16115, 12966, 248, -53>>,
      <<-1, 3771, 23103, 3187, 64, -53, 1, 31239, 17059, 30241, 123, -52>>,
      <<-1, 841, 16787, 8443, 66, -53, 1, 16149, 3729, 9077, 247, -53>>,
      <<-1, 28711, 16215, 3383, 17, -51, 1, 15873, 4221, 22590, 246, -53>>,
      <<-1, 3623, 14949, 4139, 141, -54, 1, 15607, 8077, 30229, 1, -46>>,
      <<-1, 3161, 22818, 11598, 36, -52, 1, 599, 13772, 27370, 3, -47>>,
      <<-1, 27363, 20355, 27759, 74, -53, 1, 24281, 18151, 21313, 7, -48>>,
      <<-1, 21519, 2469, 32135, 76, -53, 1, 22497, 21062, 4965, 244, -53>>,
      <<-1, 29863, 14127, 3550, 79, -53, 1, 17493, 7206, 31164, 0, -45>>,
      <<-1, 7105, 12424, 7536, 81, -53, 1, 4617, 27858, 22698, 60, -51>>,
      <<-1, 19931, 8193, 22639, 166, -54, 1, 13515, 22525, 1728, 242, -53>>,
      <<-1, 15035, 25547, 29789, 170, -54, 1, 32591, 32002, 21564, 120, -52>>,
      <<-1, 3061, 26900, 3745, 175, -54, 1, 2887, 8489, 4598, 60, -51>>,
      <<-1, 28953, 28841, 10032, 179, -54, 1, 8317, 26873, 25823, 239, -53>>,
      <<-1, 13519, 4071, 28544, 45, -52, 1, 14341, 7679, 32656, 238, -53>>,
      <<-1, 12557, 4014, 27011, 93, -53, 1, 13529, 4163, 3062, 119, -52>>,
      <<-1, 19265, 28389, 29467, 95, -53, 1, 31083, 24165, 21950, 29, -50>>,
      <<-1, 21681, 9902, 31685, 97, -53, 1, 18083, 20274, 8407, 118, -52>>,
      <<-1, 32683, 17713, 1780, 200, -54, 1, 13111, 6188, 27021, 117, -52>>,
      <<-1, 2651, 8492, 5227, 204, -54, 1, 20037, 6047, 11335, 29, -50>>,
      <<-1, 3433, 8454, 4082, 104, -53, 1, 32661, 24062, 28430, 233, -53>>,
      <<-1, 10963, 3466, 10582, 212, -54, 1, 10591, 6497, 15566, 116, -52>>,
      <<-1, 6225, 28271, 12469, 216, -54, 1, 15085, 19467, 60, 29, -50>>,
      <<-1, 27193, 27222, 6908, 110, -53, 1, 4463, 17506, 25082, 57, -51>>,
      <<-1, 741, 23230, 7307, 112, -53, 1, 14537, 30380, 2990, 230, -53>>,
      <<-1, 7493, 2925, 14853, 228, -54, 1, 14073, 17865, 3381, 229, -53>>,
      <<-1, 24063, 22153, 14520, 232, -54, 1, 11373, 14970, 3200, 228, -53>>,
      <<-1, 22325, 7272, 13608, 236, -54, 1, 11193, 2806, 17609, 113, -52>>,
      <<-1, 20603, 26696, 12105, 240, -54, 1, 9991, 7898, 1133, 226, -53>>,
      <<-1, 5081, 26004, 5001, 122, -53, 1, 2965, 8579, 32020, 224, -53>>,
      <<-1, 26683, 30455, 1822, 62, -52, 1, 14791, 28582, 29577, 223, -53>>,
      <<-1, 18907, 3533, 990, 63, -52, 1, 12257, 12350, 13288, 111, -52>>,
      <<-1, 32767, 32767, 32767, 63, -52, 1, 19627, 20656, 23019, 221, -53>>,
      <<-1, 13847, 12184, 30468, 129, -53, 1, 2705, 8792, 18909, 220, -53>>,
      <<-1, 30661, 4222, 31537, 32, -51, 1, 30063, 7798, 23508, 109, -52>>,
      <<-1, 19367, 29818, 14414, 33, -51, 1, 1345, 3402, 9040, 218, -53>>,
      <<-1, 23849, 32089, 21604, 135, -53, 1, 21667, 17101, 18027, 108, -52>>,
      <<-1, 1687, 31072, 12686, 34, -51, 1, 17039, 7519, 29760, 215, -53>>,
      <<-1, 30493, 12000, 14011, 139, -53, 1, 12251, 20828, 22926, 214, -53>>,
      <<-1, 30965, 28714, 21691, 17, -50, 1, 3277, 9112, 15557, 213, -53>>,
      <<-1, 32017, 2083, 5026, 143, -53, 1, 28325, 6993, 7655, 212, -53>>,
      <<-1, 31545, 30970, 16383, 72, -52, 1, 5107, 17658, 31991, 210, -53>>,
      <<-1, 18809, 28920, 27379, 146, -53, 1, 17315, 22805, 27900, 104, -52>>,
      <<-1, 16527, 11959, 5406, 37, -51, 1, 13587, 31136, 13551, 208, -53>>,
      <<-1, 23133, 2282, 15500, 150, -53, 1, 32405, 26341, 29115, 25, -50>>,
      <<-1, 3301, 29440, 1124, 19, -50, 1, 16965, 1504, 29284, 102, -52>>,
      <<-1, 16055, 10411, 2118, 154, -53, 1, 31251, 7492, 14768, 204, -53>>,
      <<-1, 2549, 16277, 30194, 77, -52, 1, 4681, 2903, 17997, 101, -52>>,
      <<-1, 18745, 25467, 19966, 157, -53, 1, 12777, 21492, 28356, 100, -52>>,
      <<-1, 31245, 8552, 11919, 159, -53, 1, 29269, 1488, 11393, 200, -53>>,
      <<-1, 7855, 16932, 9060, 40, -51, 1, 9001, 27179, 31108, 198, -53>>,
      <<-1, 20197, 27762, 27394, 162, -53, 1, 4995, 5020, 17560, 197, -53>>,
      <<-1, 5661, 9336, 18141, 164, -53, 1, 20537, 17822, 3518, 196, -53>>,
      <<-1, 28397, 3073, 8477, 166, -53, 1, 31685, 29214, 21822, 48, -51>>,
      <<-1, 20435, 624, 31166, 167, -53, 1, 9095, 11560, 4938, 24, -50>>,
      <<-1, 1381, 24243, 19723, 10, -49, 1, 3535, 31966, 28387, 95, -52>>,
      <<-1, 16763, 9656, 13506, 21, -50, 1, 24417, 10291, 4015, 95, -52>>,
      <<-1, 8359, 13773, 31165, 172, -53, 1, 20101, 18539, 24346, 188, -53>>,
      <<-1, 19989, 14732, 9692, 87, -52, 1, 27011, 16784, 7423, 187, -53>>,
      <<-1, 795, 22954, 7168, 176, -53, 1, 22223, 8246, 22801, 185, -53>>,
      <<-1, 29457, 25024, 27280, 177, -53, 1, 10663, 14761, 618, 23, -50>>,
      <<-1, 6585, 17396, 23474, 89, -52, 1, 6051, 6943, 9701, 91, -52>>,
      <<-1, 20211, 13119, 8350, 45, -51, 1, 15309, 19710, 633, 181, -53>>,
      <<-1, 12101, 13886, 19402, 182, -53, 1, 13171, 2024, 14181, 179, -53>>,
      <<-1, 19769, 19786, 4947, 184, -53, 1, 29455, 25024, 27280, 177, -53>>,
      <<-1, 22221, 8246, 22801, 185, -53, 1, 16583, 5738, 1792, 44, -51>>,
      <<-1, 13505, 24776, 20095, 93, -52, 1, 9995, 7366, 21230, 43, -51>>,
      <<-1, 29601, 21018, 6086, 47, -51, 1, 21525, 22201, 20279, 21, -50>>,
      <<-1, 20219, 15681, 31869, 2, -47, 1, 3033, 11716, 9746, 171, -53>>,
      <<-1, 7071, 31164, 24007, 191, -53, 1, 11047, 30104, 26717, 84, -52>>,
      <<-1, 7223, 26946, 6738, 193, -53, 1, 5109, 16540, 32367, 41, -51>>,
      <<-1, 28435, 18555, 21755, 194, -53, 1, 28399, 3073, 8477, 166, -53>>,
      <<-1, 27143, 26803, 16823, 24, -50, 1, 2831, 21052, 9070, 82, -52>>,
      <<-1, 4997, 5020, 17560, 197, -53, 1, 20195, 27762, 27394, 162, -53>>,
      <<-1, 13413, 19781, 28464, 24, -50, 1, 31421, 2192, 3474, 161, -53>>,
      <<-1, 7317, 8564, 2848, 50, -51, 1, 31247, 8552, 11919, 159, -53>>,
      <<-1, 25553, 10216, 23945, 201, -53, 1, 25757, 12733, 26367, 78, -52>>,
      <<-1, 9361, 5806, 3226, 203, -53, 1, 17659, 8138, 31481, 38, -51>>,
      <<-1, 31253, 7492, 14768, 204, -53, 1, 16053, 10411, 2118, 154, -53>>,
      <<-1, 1161, 3009, 25800, 205, -53, 1, 26409, 6144, 8999, 152, -53>>,
      <<-1, 29863, 14127, 3550, 207, -53, 1, 23135, 2282, 15500, 150, -53>>,
      <<-1, 6793, 31952, 6775, 104, -52, 1, 573, 15070, 21625, 148, -53>>,
      <<-1, 12521, 5701, 6975, 26, -50, 1, 18807, 28920, 27379, 146, -53>>,
      <<-1, 2553, 25213, 15995, 105, -52, 1, 15773, 31869, 8191, 36, -51>>,
      <<-1, 15273, 26324, 1913, 53, -51, 1, 32019, 2083, 5026, 143, -53>>,
      <<-1, 819, 10470, 12081, 53, -51, 1, 18345, 343, 9695, 141, -53>>,
      <<-1, 12251, 20828, 22926, 214, -53, 1, 30495, 12000, 14011, 139, -53>>,
      <<-1, 31785, 469, 16196, 13, -49, 1, 3373, 29376, 25373, 68, -52>>,
      <<-1, 10565, 1435, 3287, 217, -53, 1, 28309, 16044, 27186, 67, -52>>,
      <<-1, 5141, 8245, 13453, 3, -47, 1, 11933, 20970, 24891, 133, -53>>,
      <<-1, 27357, 15597, 14248, 219, -53, 1, 24341, 16891, 27844, 131, -53>>,
      <<-1, 1353, 20780, 9454, 110, -52, 1, 13845, 12184, 30468, 129, -53>>,
      <<-1, 19627, 20656, 23019, 221, -53, 1, 32767, 32767, 32767, 255, -54>>,
      <<-1, 12257, 12350, 13288, 111, -52, 1, 10095, 14134, 3960, 252, -54>>,
      <<-1, 7395, 30675, 31172, 111, -52, 1, 8431, 23519, 7291, 248, -54>>,
      <<-1, 25317, 2144, 8005, 56, -51, 1, 10165, 19240, 10003, 244, -54>>,
      <<-1, 9441, 21467, 8333, 28, -50, 1, 20599, 26696, 12105, 240, -54>>,
      <<-1, 22385, 5612, 2450, 227, -53, 1, 2791, 909, 18085, 29, -51>>,
      <<-1, 19227, 3742, 800, 57, -51, 1, 28417, 11076, 7260, 116, -53>>,
      <<-1, 14073, 17865, 3381, 229, -53, 1, 21417, 20845, 18240, 28, -51>>,
      <<-1, 7269, 15190, 1495, 115, -52, 1, 739, 23230, 7307, 112, -53>>,
      <<-1, 17851, 4488, 2026, 231, -53, 1, 21621, 21677, 13817, 220, -54>>,
      <<-1, 22375, 24667, 484, 232, -53, 1, 26133, 15259, 3117, 54, -52>>,
      <<-1, 21181, 12994, 31132, 232, -53, 1, 5483, 1733, 5291, 106, -53>>,
      <<-1, 24549, 22399, 15299, 58, -51, 1, 6869, 16908, 8164, 208, -54>>,
      <<-1, 20037, 6047, 11335, 29, -50, 1, 2651, 8492, 5227, 204, -54>>,
      <<-1, 26223, 12376, 21274, 235, -53, 1, 32683, 17713, 1780, 200, -54>>,
      <<-1, 18083, 20274, 8407, 118, -52, 1, 10597, 19805, 30602, 195, -54>>,
      <<-1, 19287, 29487, 11765, 237, -53, 1, 5765, 24011, 26167, 191, -54>>,
      <<-1, 13529, 4163, 3062, 119, -52, 1, 25113, 8028, 21254, 187, -54>>,
      <<-1, 14341, 7679, 32656, 238, -53, 1, 21307, 16285, 15872, 183, -54>>,
      <<-1, 10271, 31294, 31031, 59, -51, 1, 28957, 28841, 10032, 179, -54>>,
      <<-1, 11547, 1188, 18393, 240, -53, 1, 16767, 7458, 29140, 21, -51>>,
      <<-1, 32591, 32002, 21564, 120, -52, 1, 23903, 29157, 14894, 85, -53>>,
      <<-1, 13515, 22525, 1728, 242, -53, 1, 26349, 20480, 11319, 83, -53>>,
      <<-1, 4617, 27858, 22698, 60, -51, 1, 14209, 24848, 15072, 162, -54>>,
      <<-1, 21759, 9864, 15416, 243, -53, 1, 26961, 28255, 7100, 158, -54>>,
      <<-1, 6847, 5778, 20635, 7, -48, 1, 21521, 2469, 32135, 76, -53>>,
      <<-1, 24281, 18151, 21313, 7, -48, 1, 21957, 7943, 22751, 149, -54>>,
      <<-1, 599, 13772, 27370, 3, -47, 1, 12643, 25736, 13626, 145, -54>>,
      <<-1, 15607, 8077, 30229, 1, -46, 1, 18197, 23858, 18453, 70, -53>>,
      <<-1, 15873, 4221, 22590, 246, -53, 1, 315, 31423, 27067, 136, -54>>,
      <<-1, 12229, 9124, 26845, 61, -51, 1, 1685, 806, 16887, 132, -54>>,
      <<-1, 31239, 17059, 30241, 123, -52, 1, 7541, 13438, 6375, 128, -54>>,
      <<-1, 14885, 16115, 12966, 248, -53, 1, 14621, 26057, 23855, 247, -55>>,
      <<-1, 3559, 1527, 15183, 124, -52, 1, 20413, 13490, 30818, 14, -51>>,
      <<-1, 17287, 8526, 23572, 124, -52, 1, 29087, 7014, 19250, 57, -53>>,
      <<-1, 14939, 8121, 31650, 124, -52, 1, 2395, 2523, 13387, 55, -53>>,
      <<-1, 29697, 28873, 31335, 1, -46, 1, 22773, 22660, 29542, 212, -55>>,
      <<-1, 29199, 7096, 28204, 250, -53, 1, 5699, 23750, 17009, 25, -52>>,
      <<-1, 23393, 26936, 21242, 125, -52, 1, 25173, 15084, 12727, 195, -55>>,
      <<-1, 26149, 32499, 28069, 125, -52, 1, 1991, 6341, 10687, 23, -52>>,
      <<-1, 7191, 6402, 3630, 252, -53, 1, 29575, 31766, 26729, 177, -55>>,
      <<-1, 25529, 21091, 8013, 126, -52, 1, 13283, 21876, 286, 169, -55>>,
      <<-1, 25691, 10335, 27794, 252, -53, 1, 21369, 20304, 6189, 160, -55>>,
      <<-1, 27335, 19525, 9732, 63, -51, 1, 28351, 13675, 22230, 75, -54>>,
      <<-1, 19005, 10544, 24717, 126, -52, 1, 7701, 11547, 16818, 142, -55>>,
      <<-1, 26779, 9688, 26538, 253, -53, 1, 23085, 8685, 11589, 8, -51>>,
      <<-1, 16011, 19268, 3008, 254, -53, 1, 27739, 4883, 6506, 31, -53>>,
      <<-1, 27735, 26774, 11612, 254, -53, 1, 27905, 2526, 27531, 231, -56>>,
      <<-1, 13283, 5368, 9791, 127, -52, 1, 22399, 13944, 2434, 214, -56>>,
      <<-1, 19411, 8401, 13458, 127, -52, 1, 27987, 18705, 9571, 196, -56>>,
      <<-1, 2769, 13336, 16807, 127, -52, 1, 8257, 23649, 20438, 44, -54>>,
      <<-1, 24751, 23628, 6908, 255, -53, 1, 18217, 12857, 11210, 80, -55>>,
      <<-1, 32763, 29040, 22550, 127, -52, 1, 18983, 23386, 28103, 17, -53>>,
      <<-1, 5707, 18190, 17121, 255, -53, 1, 8891, 8981, 1796, 250, -57>>,
      <<-1, 26141, 23077, 21271, 255, -53, 1, 25733, 18671, 6030, 107, -56>>,
      <<-1, 17911, 29620, 24783, 255, -53, 1, 19995, 2258, 21791, 178, -57>>,
      <<-1, 1383, 29054, 27657, 255, -53, 1, 24433, 17999, 7653, 2, -51>>,
      <<-1, 17013, 14206, 29893, 255, -53, 1, 19167, 1825, 14469, 214, -58>>,
      <<-1, 22469, 6133, 32129, 127, -52, 1, 23817, 22291, 31788, 142, -58>>,
      <<-1, 18893, 19251, 32448, 255, -53, 1, 19503, 2346, 31967, 142, -59>>,
      <<-1, 1, 0, 0, 0, 0, 1, 23559, 26152, 6296, 141, -105>>,
      <<-1, 18893, 19251, 32448, 255, -53, -1, 19361, 2346, 31967, 142, -59>>,
      <<-1, 22469, 6133, 32129, 127, -52, -1, 28321, 11145, 15894, 71, -57>>,
      <<-1, 17013, 14206, 29893, 255, -53, -1, 6483, 20708, 26384, 26, -55>>,
      <<-1, 1383, 29054, 27657, 255, -53, -1, 23581, 5103, 31075, 142, -57>>,
      <<-1, 17911, 29620, 24783, 255, -53, -1, 10687, 28954, 10915, 22, -54>>,
      <<-1, 26141, 23077, 21271, 255, -53, -1, 18663, 4575, 12061, 214, -57>>,
      <<-1, 2853, 25479, 24944, 127, -52, -1, 8919, 8981, 1796, 250, -57>>,
      <<-1, 32763, 29040, 22550, 127, -52, -1, 10387, 28010, 14110, 71, -55>>,
      <<-1, 24751, 23628, 6908, 255, -53, -1, 26169, 10641, 16734, 2, -50>>,
      <<-1, 2769, 13336, 16807, 127, -52, -1, 16505, 14530, 8109, 89, -55>>,
      <<-1, 6053, 16803, 26916, 254, -53, -1, 28001, 18705, 9571, 196, -56>>,
      <<-1, 13283, 5368, 9791, 127, -52, -1, 11191, 6972, 1217, 107, -55>>,
      <<-1, 27735, 26774, 11612, 254, -53, -1, 27887, 2526, 27531, 231, -56>>,
      <<-1, 4003, 4817, 17136, 63, -51, -1, 25287, 6302, 19281, 249, -56>>,
      <<-1, 6695, 18806, 14826, 63, -51, -1, 8903, 7899, 21588, 133, -55>>,
      <<-1, 5241, 21089, 16666, 253, -53, -1, 26503, 19270, 20588, 35, -53>>,
      <<-1, 27335, 19525, 9732, 63, -51, -1, 28347, 13675, 22230, 75, -54>>,
      <<-1, 30999, 18967, 6948, 63, -51, -1, 1335, 27893, 386, 10, -51>>,
      <<-1, 25529, 21091, 8013, 126, -52, -1, 13275, 21876, 286, 169, -55>>,
      <<-1, 7191, 6402, 3630, 252, -53, -1, 14791, 32267, 29748, 88, -54>>,
      <<-1, 19531, 32231, 23371, 251, -53, -1, 15919, 17960, 19961, 186, -55>>,
      <<-1, 23393, 26936, 21242, 125, -52, -1, 6291, 28347, 27757, 48, -53>>,
      <<-1, 18209, 25019, 22242, 15, -49, -1, 12815, 26161, 5005, 204, -55>>,
      <<-1, 127, 25844, 13296, 250, -53, -1, 5695, 22049, 7385, 53, -53>>,
      <<-1, 14939, 8121, 31650, 124, -52, -1, 9587, 10092, 20780, 221, -55>>,
      <<-1, 1807, 17053, 14376, 249, -53, -1, 29085, 7014, 19250, 57, -53>>,
      <<-1, 7119, 3054, 30366, 248, -53, -1, 31687, 19241, 1574, 239, -55>>,
      <<-1, 14885, 16115, 12966, 248, -53, -1, 14613, 26057, 23855, 247, -55>>,
      <<-1, 31239, 17059, 30241, 123, -52, -1, 7545, 13438, 6375, 128, -54>>,
      <<-1, 16149, 3729, 9077, 247, -53, -1, 1681, 806, 16887, 132, -54>>,
      <<-1, 24321, 2110, 11295, 123, -52, -1, 311, 31423, 27067, 136, -54>>,
      <<-1, 15607, 8077, 30229, 1, -46, -1, 18195, 23858, 18453, 70, -53>>,
      <<-1, 599, 13772, 27370, 3, -47, -1, 6323, 12868, 23197, 72, -53>>,
      <<-1, 23327, 23799, 26673, 244, -53, -1, 31417, 29664, 23323, 18, -51>>,
      <<-1, 22497, 21062, 4965, 244, -53, -1, 10269, 4939, 31502, 153, -54>>,
      <<-1, 17493, 7206, 31164, 0, -45, -1, 26957, 28255, 7100, 158, -54>>,
      <<-1, 18469, 13128, 25259, 242, -53, -1, 14205, 24848, 15072, 162, -54>>,
      <<-1, 23141, 11262, 864, 121, -52, -1, 19933, 8193, 22639, 166, -54>>,
      <<-1, 32415, 31237, 10361, 241, -53, -1, 23901, 29157, 14894, 85, -53>>,
      <<-1, 2887, 8489, 4598, 60, -51, -1, 765, 14917, 25512, 43, -52>>,
      <<-1, 8317, 26873, 25823, 239, -53, -1, 7715, 3605, 13542, 22, -51>>,
      <<-1, 14341, 7679, 32656, 238, -53, -1, 21311, 16285, 15872, 183, -54>>,
      <<-1, 27057, 8326, 6124, 238, -53, -1, 25117, 8028, 21254, 187, -54>>,
      <<-1, 31083, 24165, 21950, 29, -50, -1, 5761, 24011, 26167, 191, -54>>,
      <<-1, 3399, 7781, 16815, 236, -53, -1, 10593, 19805, 30602, 195, -54>>,
      <<-1, 26223, 12376, 21274, 235, -53, -1, 32679, 17713, 1780, 200, -54>>,
      <<-1, 20037, 6047, 11335, 29, -50, -1, 1327, 20630, 2613, 102, -53>>,
      <<-1, 32661, 24062, 28430, 233, -53, -1, 6865, 16908, 8164, 208, -54>>,
      <<-1, 10591, 6497, 15566, 116, -52, -1, 5481, 1733, 5291, 106, -53>>,
      <<-1, 15085, 19467, 60, 29, -50, -1, 31109, 12006, 17163, 13, -50>>,
      <<-1, 8925, 2244, 17397, 115, -52, -1, 21625, 21677, 13817, 220, -54>>,
      <<-1, 14537, 30380, 2990, 230, -53, -1, 1481, 13692, 14615, 224, -54>>,
      <<-1, 23421, 25316, 18074, 114, -52, -1, 10065, 8923, 3713, 57, -52>>,
      <<-1, 11373, 14970, 3200, 228, -53, -1, 24063, 22153, 14520, 232, -54>>,
      <<-1, 11193, 2806, 17609, 113, -52, -1, 22325, 7272, 13608, 236, -54>>,
      <<-1, 9991, 7898, 1133, 226, -53, -1, 10301, 29732, 6052, 120, -53>>,
      <<-1, 2965, 8579, 32020, 224, -53, -1, 10161, 19240, 10003, 244, -54>>,
      <<-1, 14791, 28582, 29577, 223, -53, -1, 8427, 23519, 7291, 248, -54>>,
      <<-1, 24515, 24700, 26576, 222, -53, -1, 10091, 14134, 3960, 252, -54>>,
      <<-1, 9813, 26712, 27893, 110, -52, -1, 1, 0, 0, 128, -53>>,
      <<-1, 2705, 8792, 18909, 220, -53, -1, 6923, 6092, 31618, 64, -52>>,
      <<-1, 30063, 7798, 23508, 109, -52, -1, 24339, 16891, 27844, 131, -53>>,
      <<-1, 1345, 3402, 9040, 218, -53, -1, 11931, 20970, 24891, 133, -53>>,
      <<-1, 21667, 17101, 18027, 108, -52, -1, 23849, 32089, 21604, 135, -53>>,
      <<-1, 17039, 7519, 29760, 215, -53, -1, 6747, 25984, 17979, 137, -53>>,
      <<-1, 3063, 21591, 22115, 53, -51, -1, 30493, 12000, 14011, 139, -53>>,
      <<-1, 3277, 9112, 15557, 213, -53, -1, 30965, 28714, 21691, 17, -50>>,
      <<-1, 30547, 19880, 3827, 106, -52, -1, 32017, 2083, 5026, 143, -53>>,
      <<-1, 5105, 17658, 31991, 210, -53, -1, 30325, 29173, 32767, 144, -53>>,
      <<-1, 1863, 12843, 23033, 209, -53, -1, 18809, 28920, 27379, 146, -53>>,
      <<-1, 13587, 31136, 13551, 208, -53, -1, 16527, 11959, 5406, 37, -51>>,
      <<-1, 29865, 14127, 3550, 207, -53, -1, 23133, 2282, 15500, 150, -53>>,
      <<-1, 1163, 3009, 25800, 205, -53, -1, 3301, 29440, 1124, 19, -50>>,
      <<-1, 7813, 1873, 3692, 51, -51, -1, 16055, 10411, 2118, 154, -53>>,
      <<-1, 4681, 2903, 17997, 101, -52, -1, 2549, 16277, 30194, 77, -52>>,
      <<-1, 12777, 21492, 28356, 100, -52, -1, 14631, 27759, 22975, 19, -50>>,
      <<-1, 29269, 1488, 11393, 200, -53, -1, 31245, 8552, 11919, 159, -53>>,
      <<-1, 8999, 27179, 31108, 198, -53, -1, 31423, 2192, 3474, 161, -53>>,
      <<-1, 4995, 5020, 17560, 197, -53, -1, 21433, 23324, 23232, 40, -51>>,
      <<-1, 20537, 17822, 3518, 196, -53, -1, 1415, 10526, 4535, 41, -51>>,
      <<-1, 31685, 29214, 21822, 48, -51, -1, 28397, 3073, 8477, 166, -53>>,
      <<-1, 9095, 11560, 4938, 24, -50, -1, 10217, 312, 31967, 83, -52>>,
      <<-1, 3535, 31966, 28387, 95, -52, -1, 22095, 27440, 20667, 169, -53>>,
      <<-1, 24417, 10291, 4015, 95, -52, -1, 16763, 9656, 13506, 21, -50>>,
      <<-1, 20101, 18539, 24346, 188, -53, -1, 20563, 23270, 15582, 86, -52>>,
      <<-1, 27011, 16784, 7423, 187, -53, -1, 19989, 14732, 9692, 87, -52>>,
      <<-1, 21939, 10253, 13892, 46, -51, -1, 399, 11477, 3584, 88, -52>>,
      <<-1, 10663, 14761, 618, 23, -50, -1, 29457, 25024, 27280, 177, -53>>,
      <<-1, 6051, 6943, 9701, 91, -52, -1, 6585, 17396, 23474, 89, -52>>,
      <<-1, 7655, 26239, 16700, 90, -52, -1, 20211, 13119, 8350, 45, -51>>,
      <<-1, 3293, 8698, 28121, 44, -51, -1, 19409, 19855, 21234, 45, -51>>,
      <<-1, 1841, 1564, 3753, 11, -49, -1, 19769, 19786, 4947, 184, -53>>,
      <<-1, 797, 22954, 7168, 176, -53, -1, 22221, 8246, 22801, 185, -53>>,
      <<-1, 9995, 7366, 21230, 43, -51, -1, 13505, 24776, 20095, 93, -52>>,
      <<-1, 21525, 22201, 20279, 21, -50, -1, 20099, 18539, 24346, 188, -53>>,
      <<-1, 3031, 11716, 9746, 171, -53, -1, 16067, 20583, 8030, 190, -53>>,
      <<-1, 22095, 27440, 20667, 169, -53, -1, 7071, 31164, 24007, 191, -53>>,
      <<-1, 5109, 16540, 32367, 41, -51, -1, 7223, 26946, 6738, 193, -53>>,
      <<-1, 15291, 8960, 18503, 41, -51, -1, 28437, 18555, 21755, 194, -53>>,
      <<-1, 2831, 21052, 9070, 82, -52, -1, 27143, 26803, 16823, 24, -50>>,
      <<-1, 20195, 27762, 27394, 162, -53, -1, 1249, 1255, 12582, 49, -51>>,
      <<-1, 31425, 2192, 3474, 161, -53, -1, 8997, 27179, 31108, 198, -53>>,
      <<-1, 31247, 8552, 11919, 159, -53, -1, 29267, 1488, 11393, 200, -53>>,
      <<-1, 18743, 25467, 19966, 157, -53, -1, 25555, 10216, 23945, 201, -53>>,
      <<-1, 17659, 8138, 31481, 38, -51, -1, 29257, 20842, 22729, 12, -49>>,
      <<-1, 24411, 5205, 1059, 77, -52, -1, 7813, 1873, 3692, 51, -51>>,
      <<-1, 26413, 6144, 8999, 152, -53, -1, 1159, 3009, 25800, 205, -53>>,
      <<-1, 23135, 2282, 15500, 150, -53, -1, 29863, 14127, 3550, 207, -53>>,
      <<-1, 571, 15070, 21625, 148, -53, -1, 3397, 32360, 3387, 52, -51>>,
      <<-1, 18811, 28920, 27379, 146, -53, -1, 1861, 12843, 23033, 209, -53>>,
      <<-1, 15773, 31869, 8191, 36, -51, -1, 2553, 25213, 15995, 105, -52>>,
      <<-1, 8145, 4226, 31034, 8, -49, -1, 30547, 19880, 3827, 106, -52>>,
      <<-1, 25557, 16555, 21231, 70, -52, -1, 819, 10470, 12081, 53, -51>>,
      <<-1, 7623, 27576, 28078, 34, -51, -1, 3063, 21591, 22115, 53, -51>>,
      <<-1, 3375, 29376, 25373, 68, -52, -1, 24903, 3759, 31264, 107, -52>>,
      <<-1, 23851, 32089, 21604, 135, -53, -1, 10565, 1435, 3287, 217, -53>>,
      <<-1, 5965, 26869, 28829, 66, -52, -1, 673, 1701, 4520, 109, -52>>,
      <<-1, 28555, 8445, 30306, 65, -52, -1, 15031, 3899, 28138, 54, -51>>,
      <<-1, 13845, 12184, 30468, 129, -53, -1, 1353, 20780, 9454, 110, -52>>,
      <<-1, 1, 0, 0, 32, -51, -1, 2453, 14870, 23357, 27, -50>>,
      <<-1, 12919, 17267, 24823, 15, -50, -1, 24513, 24700, 26576, 222, -53>>,
      <<-1, 8425, 23519, 7291, 248, -54, -1, 26425, 7668, 32369, 27, -50>>,
      <<-1, 5083, 26004, 5001, 122, -53, -1, 25317, 2144, 8005, 56, -51>>,
      <<-1, 2575, 7433, 1513, 30, -51, -1, 9441, 21467, 8333, 28, -50>>,
      <<-1, 20829, 20593, 22740, 3, -48, -1, 22383, 5612, 2450, 227, -53>>,
      <<-1, 24067, 22153, 14520, 232, -54, -1, 19227, 3742, 800, 57, -51>>,
      <<-1, 20129, 17846, 7426, 114, -53, -1, 23421, 25316, 18074, 114, -52>>,
      <<-1, 743, 23230, 7307, 112, -53, -1, 18201, 28373, 24949, 28, -50>>,
      <<-1, 27195, 27222, 6908, 110, -53, -1, 17851, 4488, 2026, 231, -53>>,
      <<-1, 19495, 30519, 6234, 108, -53, -1, 15085, 19467, 60, 29, -50>>,
      <<-1, 10967, 3466, 10582, 212, -54, -1, 21181, 12994, 31132, 232, -53>>,
      <<-1, 6863, 16908, 8164, 208, -54, -1, 16331, 12031, 30599, 116, -52>>,
      <<-1, 2659, 8492, 5227, 204, -54, -1, 29223, 15612, 25145, 234, -53>>,
      <<-1, 16363, 4428, 445, 50, -52, -1, 13111, 6188, 27021, 117, -52>>,
      <<-1, 21679, 9902, 31685, 97, -53, -1, 3399, 7781, 16815, 236, -53>>,
      <<-1, 19267, 28389, 29467, 95, -53, -1, 19287, 29487, 11765, 237, -53>>,
      <<-1, 12557, 4014, 27011, 93, -53, -1, 13529, 4163, 3062, 119, -52>>,
      <<-1, 13521, 4071, 28544, 45, -52, -1, 28161, 1919, 24548, 59, -51>>,
      <<-1, 30863, 14420, 21400, 89, -53, -1, 10271, 31294, 31031, 59, -51>>,
      <<-1, 1529, 29834, 18256, 87, -53, -1, 2887, 8489, 4598, 60, -51>>,
      <<-1, 15039, 25547, 29789, 170, -54, -1, 32591, 32002, 21564, 120, -52>>,
      <<-1, 19931, 8193, 22639, 166, -54, -1, 13515, 22525, 1728, 242, -53>>,
      <<-1, 7109, 12424, 7536, 81, -53, -1, 18467, 13128, 25259, 242, -53>>,
      <<-1, 29865, 14127, 3550, 79, -53, -1, 21759, 9864, 15416, 243, -53>>,
      <<-1, 10267, 4939, 31502, 153, -54, -1, 22497, 21062, 4965, 244, -53>>,
      <<-1, 27367, 20355, 27759, 74, -53, -1, 28047, 28283, 13336, 122, -52>>,
      <<-1, 3161, 22818, 11598, 36, -52, -1, 599, 13772, 27370, 3, -47>>,
      <<-1, 9097, 28313, 9226, 35, -52, -1, 31617, 18108, 2719, 246, -53>>,
      <<-1, 24655, 32431, 6766, 34, -52, -1, 15873, 4221, 22590, 246, -53>>,
      <<-1, 839, 16787, 8443, 66, -53, -1, 16149, 3729, 9077, 247, -53>>,
      <<-1, 3775, 23103, 3187, 64, -53, -1, 29709, 1351, 27715, 247, -53>>,
      <<-1, 14623, 26057, 23855, 247, -55, -1, 14885, 16115, 12966, 248, -53>>,
      <<-1, 32225, 9620, 17171, 119, -54, -1, 7119, 3054, 30366, 248, -53>>,
      <<-1, 25407, 14029, 5732, 115, -54, -1, 17287, 8526, 23572, 124, -52>>,
      <<-1, 9583, 10092, 20780, 221, -55, -1, 14939, 8121, 31650, 124, -52>>,
      <<-1, 11395, 11330, 14771, 106, -54, -1, 127, 25844, 13296, 250, -53>>,
      <<-1, 22797, 29464, 2502, 102, -54, -1, 29199, 7096, 28204, 250, -53>>,
      <<-1, 19529, 30557, 13878, 24, -52, -1, 23393, 26936, 21242, 125, -52>>,
      <<-1, 7965, 25364, 9980, 93, -54, -1, 26149, 32499, 28069, 125, -52>>,
      <<-1, 29577, 31766, 26729, 177, -55, -1, 7191, 6402, 3630, 252, -53>>,
      <<-1, 6635, 10938, 16527, 84, -54, -1, 25529, 21091, 8013, 126, -52>>,
      <<-1, 21371, 20304, 6189, 160, -55, -1, 25691, 10335, 27794, 252, -53>>,
      <<-1, 23921, 27351, 11692, 151, -55, -1, 27335, 19525, 9732, 63, -51>>,
      <<-1, 7719, 11547, 16818, 142, -55, -1, 5241, 21089, 16666, 253, -53>>,
      <<-1, 20841, 3949, 27178, 66, -54, -1, 26779, 9688, 26538, 253, -53>>,
      <<-1, 25277, 6302, 19281, 249, -56, -1, 4003, 4817, 17136, 63, -51>>,
      <<-1, 27909, 2526, 27531, 231, -56, -1, 27735, 26774, 11612, 254, -53>>,
      <<-1, 5593, 19870, 16992, 53, -54, -1, 26567, 10736, 19582, 254, -53>>,
      <<-1, 28023, 18705, 9571, 196, -56, -1, 6053, 16803, 26916, 254, -53>>,
      <<-1, 20513, 11824, 10219, 22, -53, -1, 2769, 13336, 16807, 127, -52>>,
      <<-1, 18203, 12857, 11210, 80, -55, -1, 24751, 23628, 6908, 255, -53>>,
      <<-1, 5199, 14005, 23439, 35, -54, -1, 32763, 29040, 22550, 127, -52>>,
      <<-1, 8899, 8981, 1796, 250, -57, -1, 5707, 18190, 17121, 255, -53>>,
      <<-1, 25769, 18671, 6030, 107, -56, -1, 26141, 23077, 21271, 255, -53>>,
      <<-1, 21385, 25140, 21831, 44, -55, -1, 17911, 29620, 24783, 255, -53>>,
      <<-1, 23561, 5103, 31075, 142, -57, -1, 1383, 29054, 27657, 255, -53>>,
      <<-1, 3247, 10354, 13192, 13, -54, -1, 17013, 14206, 29893, 255, -53>>,
      <<-1, 28301, 11145, 15894, 71, -57, -1, 22469, 6133, 32129, 127, -52>>,
      <<-1, 9641, 17557, 15983, 71, -58, -1, 18893, 19251, 32448, 255, -53>>,
      <<-1, 17669, 19614, 29298, 105, -104, -1, 1, 0, 0, 0, 0>>,
      <<1, 9791, 17557, 15983, 71, -58, -1, 18893, 19251, 32448, 255, -53>>,
      <<1, 7627, 25969, 30658, 8, -54, -1, 22469, 6133, 32129, 127, -52>>,
      <<1, 25923, 17296, 7234, 107, -57, -1, 17013, 14206, 29893, 255, -53>>,
      <<1, 30485, 25851, 24152, 35, -55, -1, 1383, 29054, 27657, 255, -53>>,
      <<1, 19951, 2258, 21791, 178, -57, -1, 17911, 29620, 24783, 255, -53>>,
      <<1, 25743, 18671, 6030, 107, -56, -1, 26141, 23077, 21271, 255, -53>>,
      <<1, 8847, 8981, 1796, 250, -57, -1, 5707, 18190, 17121, 255, -53>>,
      <<1, 10385, 28010, 14110, 71, -55, -1, 32759, 25313, 12333, 255, -53>>,
      <<1, 25495, 6428, 5605, 40, -54, -1, 24751, 23628, 6908, 255, -53>>,
      <<1, 16503, 14530, 8109, 89, -55, -1, 2769, 13336, 16807, 127, -52>>,
      <<1, 27997, 18705, 9571, 196, -56, -1, 19411, 8401, 13458, 127, -52>>,
      <<1, 22345, 13944, 2434, 214, -56, -1, 26567, 10736, 19582, 254, -53>>,
      <<1, 27883, 2526, 27531, 231, -56, -1, 28043, 19730, 26027, 31, -50>>,
      <<1, 12657, 19535, 26024, 124, -55, -1, 16011, 19268, 3008, 254, -53>>,
      <<1, 8901, 7899, 21588, 133, -55, -1, 6695, 18806, 14826, 63, -51>>,
      <<1, 20237, 5773, 8409, 71, -54, -1, 19005, 10544, 24717, 126, -52>>,
      <<1, 23939, 27351, 11692, 151, -55, -1, 27335, 19525, 9732, 63, -51>>,
      <<1, 10679, 26536, 3094, 80, -54, -1, 30999, 18967, 6948, 63, -51>>,
      <<1, 18045, 27310, 4131, 21, -52, -1, 18289, 9415, 16027, 252, -53>>,
      <<1, 23775, 16133, 14874, 44, -53, -1, 9091, 25376, 16837, 31, -50>>,
      <<1, 15917, 17960, 19961, 186, -55, -1, 19531, 32231, 23371, 251, -53>>,
      <<1, 12589, 23926, 22747, 97, -54, -1, 14017, 21105, 9717, 251, -53>>,
      <<1, 12813, 26161, 5005, 204, -55, -1, 18209, 25019, 22242, 15, -49>>,
      <<1, 22777, 22660, 29542, 212, -55, -1, 127, 25844, 13296, 250, -53>>,
      <<1, 4785, 5046, 26774, 110, -54, -1, 29879, 16242, 30532, 249, -53>>,
      <<1, 25401, 14029, 5732, 115, -54, -1, 1807, 17053, 14376, 249, -53>>,
      <<1, 31701, 19241, 1574, 239, -55, -1, 3559, 1527, 15183, 124, -52>>,
      <<1, 14611, 26057, 23855, 247, -55, -1, 23827, 8057, 6483, 124, -52>>,
      <<1, 7543, 13438, 6375, 128, -54, -1, 31239, 17059, 30241, 123, -52>>,
      <<1, 24785, 28772, 18494, 16, -51, -1, 24459, 18248, 20922, 123, -52>>,
      <<1, 16539, 32095, 13533, 68, -53, -1, 24321, 2110, 11295, 123, -52>>,
      <<1, 3629, 14949, 4139, 141, -54, -1, 31615, 18108, 2719, 246, -53>>,
      <<1, 6319, 12868, 23197, 72, -53, -1, 5569, 29441, 15002, 245, -53>>,
      <<1, 21959, 7943, 22751, 149, -54, -1, 23327, 23799, 26673, 244, -53>>,
      <<1, 27145, 17618, 16067, 38, -52, -1, 6847, 5778, 20635, 7, -48>>,
      <<1, 31315, 7063, 18159, 39, -52, -1, 17493, 7206, 31164, 0, -45>>,
      <<1, 14211, 24848, 15072, 162, -54, -1, 4617, 27858, 22698, 60, -51>>,
      <<1, 19925, 8193, 22639, 166, -54, -1, 11571, 5631, 16816, 60, -51>>,
      <<1, 15033, 25547, 29789, 170, -54, -1, 32415, 31237, 10361, 241, -53>>,
      <<1, 1533, 29834, 18256, 87, -53, -1, 11547, 1188, 18393, 240, -53>>,
      <<1, 28951, 28841, 10032, 179, -54, -1, 8317, 26873, 25823, 239, -53>>,
      <<1, 27039, 8142, 24320, 91, -53, -1, 14341, 7679, 32656, 238, -53>>,
      <<1, 6277, 18391, 29889, 46, -52, -1, 27059, 8326, 6124, 238, -53>>,
      <<1, 19245, 14267, 16332, 1, -47, -1, 31083, 24165, 21950, 29, -50>>,
      <<1, 10599, 19805, 30602, 195, -54, -1, 3397, 7781, 16815, 236, -53>>,
      <<1, 32723, 8856, 890, 100, -53, -1, 18023, 21253, 23857, 14, -49>>,
      <<1, 2653, 8492, 5227, 204, -54, -1, 20037, 6047, 11335, 29, -50>>,
      <<1, 6857, 16908, 8164, 208, -54, -1, 32663, 24062, 28430, 233, -53>>,
      <<1, 10961, 3466, 10582, 212, -54, -1, 10591, 6497, 15566, 116, -52>>,
      <<1, 19499, 30519, 6234, 108, -53, -1, 22375, 24667, 484, 232, -53>>,
      <<1, 27975, 19786, 25439, 13, -50, -1, 4463, 17506, 25082, 57, -51>>,
      <<1, 16569, 30383, 1826, 28, -51, -1, 7269, 15190, 1495, 115, -52>>,
      <<1, 20133, 17846, 7426, 114, -53, -1, 5855, 22713, 20902, 28, -50>>,
      <<1, 28415, 11076, 7260, 116, -53, -1, 5687, 7485, 1600, 114, -52>>,
      <<1, 22331, 7272, 13608, 236, -54, -1, 25975, 4446, 6297, 14, -49>>,
      <<1, 10297, 29732, 6052, 120, -53, -1, 9993, 7898, 1133, 226, -53>>,
      <<1, 17019, 7346, 8817, 15, -50, -1, 2965, 8579, 32020, 224, -53>>,
      <<1, 8433, 23519, 7291, 248, -54, -1, 14789, 28582, 29577, 223, -53>>,
      <<1, 5045, 7067, 1980, 126, -53, -1, 24515, 24700, 26576, 222, -53>>,
      <<1, 1, 0, 0, 128, -53, -1, 9813, 26712, 27893, 110, -52>>,
      <<1, 6921, 6092, 31618, 64, -52, -1, 2707, 8792, 18909, 220, -53>>,
      <<1, 24339, 16891, 27844, 131, -53, -1, 30063, 7798, 23508, 109, -52>>,
      <<1, 5967, 26869, 28829, 66, -52, -1, 1343, 3402, 9040, 218, -53>>,
      <<1, 7077, 20395, 31372, 16, -50, -1, 10567, 1435, 3287, 217, -53>>,
      <<1, 6747, 25984, 17979, 137, -53, -1, 31785, 469, 16196, 13, -49>>,
      <<1, 30489, 12000, 14011, 139, -53, -1, 6127, 10414, 11463, 107, -52>>,
      <<1, 18343, 343, 9695, 141, -53, -1, 1639, 20940, 24162, 106, -52>>,
      <<1, 32581, 16904, 25832, 35, -51, -1, 15273, 26324, 1913, 53, -51>>,
      <<1, 30321, 29173, 32767, 144, -53, -1, 5107, 17658, 31991, 210, -53>>,
      <<1, 2351, 15903, 11614, 18, -50, -1, 1863, 12843, 23033, 209, -53>>,
      <<1, 287, 23919, 10812, 74, -52, -1, 13585, 31136, 13551, 208, -53>>,
      <<1, 22167, 570, 20259, 37, -51, -1, 29865, 14127, 3550, 207, -53>>,
      <<1, 13205, 19456, 4499, 76, -52, -1, 1161, 3009, 25800, 205, -53>>,
      <<1, 16051, 10411, 2118, 154, -53, -1, 15627, 3746, 7384, 102, -52>>,
      <<1, 5097, 32554, 27620, 155, -53, -1, 4681, 2903, 17997, 101, -52>>,
      <<1, 18747, 25467, 19966, 157, -53, -1, 17981, 19070, 19928, 12, -49>>,
      <<1, 7811, 26714, 27555, 39, -51, -1, 29269, 1488, 11393, 200, -53>>,
      <<1, 15711, 1096, 18121, 80, -52, -1, 8999, 27179, 31108, 198, -53>>,
      <<1, 20193, 27762, 27394, 162, -53, -1, 2499, 2510, 25164, 98, -52>>,
      <<1, 1415, 10526, 4535, 41, -51, -1, 10269, 8911, 1759, 98, -52>>,
      <<1, 3823, 26816, 12817, 10, -49, -1, 30601, 25661, 10877, 97, -52>>,
      <<1, 10217, 312, 31967, 83, -52, -1, 7225, 26946, 6738, 193, -53>>,
      <<1, 22095, 27440, 20667, 169, -53, -1, 3535, 31966, 28387, 95, -52>>,
      <<1, 757, 19313, 27012, 42, -51, -1, 16069, 20583, 8030, 190, -53>>,
      <<1, 20563, 23270, 15582, 86, -52, -1, 26435, 9269, 12173, 94, -52>>,
      <<1, 9995, 7366, 21230, 43, -51, -1, 27009, 16784, 7423, 187, -53>>,
      <<1, 397, 11477, 3584, 88, -52, -1, 22223, 8246, 22801, 185, -53>>,
      <<1, 1841, 1564, 3753, 11, -49, -1, 19769, 19786, 4947, 184, -53>>,
      <<1, 3293, 8698, 28121, 44, -51, -1, 19409, 19855, 21234, 45, -51>>,
      <<1, 15307, 19710, 633, 181, -53, -1, 7655, 26239, 16700, 90, -52>>,
      <<1, 12103, 13886, 19402, 182, -53, -1, 13169, 2024, 14181, 179, -53>>,
      <<1, 9883, 26277, 2473, 92, -52, -1, 29459, 25024, 27280, 177, -53>>,
      <<1, 22221, 8246, 22801, 185, -53, -1, 797, 22954, 7168, 176, -53>>,
      <<1, 6753, 28772, 26431, 46, -51, -1, 7209, 29465, 19384, 174, -53>>,
      <<1, 20099, 18539, 24346, 188, -53, -1, 8361, 13773, 31165, 172, -53>>,
      <<1, 24417, 10291, 4015, 95, -52, -1, 3031, 11716, 9746, 171, -53>>,
      <<1, 1767, 32367, 30577, 47, -51, -1, 11049, 30104, 26717, 84, -52>>,
      <<1, 3611, 13473, 19753, 96, -52, -1, 20437, 624, 31166, 167, -53>>,
      <<1, 31685, 29214, 21822, 48, -51, -1, 15291, 8960, 18503, 41, -51>>,
      <<1, 20535, 17822, 3518, 196, -53, -1, 5663, 9336, 18141, 164, -53>>,
      <<1, 1249, 1255, 12582, 49, -51, -1, 21433, 23324, 23232, 40, -51>>,
      <<1, 8997, 27179, 31108, 198, -53, -1, 31425, 2192, 3474, 161, -53>>,
      <<1, 29267, 1488, 11393, 200, -53, -1, 31247, 8552, 11919, 159, -53>>,
      <<1, 12777, 21492, 28356, 100, -52, -1, 14631, 27759, 22975, 19, -50>>,
      <<1, 29257, 20842, 22729, 12, -49, -1, 17659, 8138, 31481, 38, -51>>,
      <<1, 7813, 1873, 3692, 51, -51, -1, 24411, 5205, 1059, 77, -52>>,
      <<1, 1163, 3009, 25800, 205, -53, -1, 26407, 6144, 8999, 152, -53>>,
      <<1, 29863, 14127, 3550, 207, -53, -1, 10963, 12359, 23012, 4, -48>>,
      <<1, 3397, 32360, 3387, 52, -51, -1, 571, 15070, 21625, 148, -53>>,
      <<1, 1861, 12843, 23033, 209, -53, -1, 4703, 31806, 23228, 36, -51>>,
      <<1, 5105, 17658, 31991, 210, -53, -1, 30325, 29173, 32767, 144, -53>>,
      <<1, 30547, 19880, 3827, 106, -52, -1, 8145, 4226, 31034, 8, -49>>,
      <<1, 3275, 9112, 15557, 213, -53, -1, 25557, 16555, 21231, 70, -52>>,
      <<1, 3063, 21591, 22115, 53, -51, -1, 7623, 27576, 28078, 34, -51>>,
      <<1, 24903, 3759, 31264, 107, -52, -1, 3375, 29376, 25373, 68, -52>>,
      <<1, 10565, 1435, 3287, 217, -53, -1, 23851, 32089, 21604, 135, -53>>,
      <<1, 1345, 3402, 9040, 218, -53, -1, 11931, 20970, 24891, 133, -53>>,
      <<1, 15031, 3899, 28138, 54, -51, -1, 28555, 8445, 30306, 65, -52>>,
      <<1, 2705, 8792, 18909, 220, -53, -1, 6923, 6092, 31618, 64, -52>>,
      <<1, 2453, 14870, 23357, 27, -50, -1, 1, 0, 0, 32, -51>>,
      <<1, 24513, 24700, 26576, 222, -53, -1, 10097, 14134, 3960, 252, -54>>,
      <<1, 14791, 28582, 29577, 223, -53, -1, 20597, 28143, 3645, 124, -53>>,
      <<1, 2963, 8579, 32020, 224, -53, -1, 10167, 19240, 10003, 244, -54>>,
      <<1, 9991, 7898, 1133, 226, -53, -1, 20601, 26696, 12105, 240, -54>>,
      <<1, 11193, 2806, 17609, 113, -52, -1, 22323, 7272, 13608, 236, -54>>,
      <<1, 19227, 3742, 800, 57, -51, -1, 14209, 5538, 3630, 58, -52>>,
      <<1, 23421, 25316, 18074, 114, -52, -1, 7491, 2925, 14853, 228, -54>>,
      <<1, 18201, 28373, 24949, 28, -50, -1, 1487, 13692, 14615, 224, -54>>,
      <<1, 8925, 2244, 17397, 115, -52, -1, 21623, 21677, 13817, 220, -54>>,
      <<1, 15085, 19467, 60, 29, -50, -1, 6223, 28271, 12469, 216, -54>>,
      <<1, 21181, 12994, 31132, 232, -53, -1, 9563, 25009, 17706, 26, -51>>,
      <<1, 16331, 12031, 30599, 116, -52, -1, 25005, 9248, 510, 13, -50>>,
      <<1, 14611, 24190, 12572, 117, -52, -1, 665, 26699, 1306, 51, -52>>,
      <<1, 13111, 6188, 27021, 117, -52, -1, 32685, 17713, 1780, 200, -54>>,
      <<1, 3399, 7781, 16815, 236, -53, -1, 10591, 19805, 30602, 195, -54>>,
      <<1, 19287, 29487, 11765, 237, -53, -1, 5767, 24011, 26167, 191, -54>>,
      <<1, 13529, 4163, 3062, 119, -52, -1, 25115, 8028, 21254, 187, -54>>,
      <<1, 14339, 7679, 32656, 238, -53, -1, 21317, 16285, 15872, 183, -54>>,
      <<1, 10271, 31294, 31031, 59, -51, -1, 28959, 28841, 10032, 179, -54>>,
      <<1, 2887, 8489, 4598, 60, -51, -1, 3059, 26900, 3745, 175, -54>>,
      <<1, 32591, 32002, 21564, 120, -52, -1, 5867, 15247, 21969, 2, -48>>,
      <<1, 13515, 22525, 1728, 242, -53, -1, 13175, 26624, 22043, 41, -52>>,
      <<1, 18469, 13128, 25259, 242, -53, -1, 3551, 6212, 20152, 40, -52>>,
      <<1, 21759, 9864, 15416, 243, -53, -1, 26963, 28255, 7100, 158, -54>>,
      <<1, 22497, 21062, 4965, 244, -53, -1, 27143, 17618, 16067, 38, -52>>,
      <<1, 28047, 28283, 13336, 122, -52, -1, 21967, 7943, 22751, 149, -54>>,
      <<1, 599, 13772, 27370, 3, -47, -1, 12645, 25736, 13626, 145, -54>>,
      <<1, 15607, 8077, 30229, 1, -46, -1, 3621, 14949, 4139, 141, -54>>,
      <<1, 15873, 4221, 22590, 246, -53, -1, 317, 31423, 27067, 136, -54>>,
      <<1, 16149, 3729, 9077, 247, -53, -1, 1679, 806, 16887, 132, -54>>,
      <<1, 29709, 1351, 27715, 247, -53, -1, 7551, 13438, 6375, 128, -54>>,
      <<1, 14885, 16115, 12966, 248, -53, -1, 23697, 29412, 28311, 123, -54>>,
      <<1, 7119, 3054, 30366, 248, -53, -1, 16113, 21194, 24969, 59, -53>>,
      <<1, 17287, 8526, 23572, 124, -52, -1, 18049, 28059, 11464, 230, -55>>,
      <<1, 14939, 8121, 31650, 124, -52, -1, 9585, 10092, 20780, 221, -55>>,
      <<1, 127, 25844, 13296, 250, -53, -1, 22793, 22660, 29542, 212, -55>>,
      <<1, 29199, 7096, 28204, 250, -53, -1, 11399, 14732, 1251, 51, -53>>,
      <<1, 23393, 26936, 21242, 125, -52, -1, 12581, 23926, 22747, 97, -54>>,
      <<1, 26149, 32499, 28069, 125, -52, -1, 3983, 12682, 21374, 46, -53>>,
      <<1, 7191, 6402, 3630, 252, -53, -1, 29579, 31766, 26729, 177, -55>>,
      <<1, 25529, 21091, 8013, 126, -52, -1, 18043, 27310, 4131, 21, -52>>,
      <<1, 25691, 10335, 27794, 252, -53, -1, 10687, 26536, 3094, 80, -54>>,
      <<1, 27335, 19525, 9732, 63, -51, -1, 23923, 27351, 11692, 151, -55>>,
      <<1, 5241, 21089, 16666, 253, -53, -1, 7721, 11547, 16818, 142, -55>>,
      <<1, 26779, 9688, 26538, 253, -53, -1, 26805, 1974, 13589, 33, -53>>,
      <<1, 4003, 4817, 17136, 63, -51, -1, 25281, 6302, 19281, 249, -56>>,
      <<1, 27735, 26774, 11612, 254, -53, -1, 13957, 17647, 30149, 115, -55>>,
      <<1, 13283, 5368, 9791, 127, -52, -1, 2797, 9935, 24880, 26, -53>>,
      <<1, 6053, 16803, 26916, 254, -53, -1, 15199, 29252, 2392, 49, -54>>,
      <<1, 2769, 13336, 16807, 127, -52, -1, 269, 29061, 16218, 178, -56>>,
      <<1, 24751, 23628, 6908, 255, -53, -1, 3643, 25715, 22420, 160, -56>>,
      <<1, 32763, 29040, 22550, 127, -52, -1, 10565, 31595, 7608, 2, -50>>,
      <<1, 2853, 25479, 24944, 127, -52, -1, 10419, 2245, 16833, 62, -55>>,
      <<1, 26141, 23077, 21271, 255, -53, -1, 18779, 4575, 12061, 214, -57>>,
      <<1, 17911, 29620, 24783, 255, -53, -1, 20013, 2258, 21791, 178, -57>>,
      <<1, 1383, 29054, 27657, 255, -53, -1, 28169, 18935, 15537, 71, -56>>,
      <<1, 17013, 14206, 29893, 255, -53, -1, 25985, 17296, 7234, 107, -57>>,
      <<1, 22469, 6133, 32129, 127, -52, -1, 30539, 5572, 24331, 35, -56>>,
      <<1, 18893, 19251, 32448, 255, -53, -1, 19317, 2346, 31967, 142, -59>>,
      <<1, 1, 0, 0, 0, 0, -1, 23559, 26152, 6296, 141, -104>>,
      <<1, 18893, 19251, 32448, 255, -53, 1, 19547, 2346, 31967, 142, -59>>,
      <<1, 22469, 6133, 32129, 127, -52, 1, 23711, 22291, 31788, 142, -58>>,
      <<1, 17013, 14206, 29893, 255, -53, 1, 19061, 1825, 14469, 214, -58>>,
      <<1, 1383, 29054, 27657, 255, -53, 1, 23627, 5103, 31075, 142, -57>>,
      <<1, 17911, 29620, 24783, 255, -53, 1, 9971, 17513, 10895, 89, -56>>,
      <<1, 26141, 23077, 21271, 255, -53, 1, 18709, 4575, 12061, 214, -57>>,
      <<1, 5707, 18190, 17121, 255, -53, 1, 20803, 4490, 898, 125, -56>>,
      <<1, 32759, 25313, 12333, 255, -53, 1, 20765, 23252, 28221, 142, -56>>,
      <<1, 24751, 23628, 6908, 255, -53, 1, 3671, 25715, 22420, 160, -56>>,
      <<1, 2769, 13336, 16807, 127, -52, 1, 16501, 14530, 8109, 89, -55>>,
      <<1, 19411, 8401, 13458, 127, -52, 1, 7595, 14626, 17580, 24, -53>>,
      <<1, 26567, 10736, 19582, 254, -53, 1, 22341, 13944, 2434, 214, -56>>,
      <<1, 28043, 19730, 26027, 31, -50, 1, 27879, 2526, 27531, 231, -56>>,
      <<1, 16011, 19268, 3008, 254, -53, 1, 12655, 19535, 26024, 124, -55>>,
      <<1, 6695, 18806, 14826, 63, -51, 1, 20833, 3949, 27178, 66, -54>>,
      <<1, 19005, 10544, 24717, 126, -52, 1, 7703, 11547, 16818, 142, -55>>,
      <<1, 27335, 19525, 9732, 63, -51, 1, 23937, 27351, 11692, 151, -55>>,
      <<1, 30999, 18967, 6948, 63, -51, 1, 5339, 13268, 1547, 40, -53>>,
      <<1, 25529, 21091, 8013, 126, -52, 1, 6643, 10938, 16527, 84, -54>>,
      <<1, 9091, 25376, 16837, 31, -50, 1, 14781, 32267, 29748, 88, -54>>,
      <<1, 19531, 32231, 23371, 251, -53, 1, 15915, 17960, 19961, 186, -55>>,
      <<1, 14017, 21105, 9717, 251, -53, 1, 19531, 30557, 13878, 24, -52>>,
      <<1, 18209, 25019, 22242, 15, -49, 1, 12811, 26161, 5005, 204, -55>>,
      <<1, 127, 25844, 13296, 250, -53, 1, 22775, 22660, 29542, 212, -55>>,
      <<1, 29879, 16242, 30532, 249, -53, 1, 12587, 12603, 30345, 6, -50>>,
      <<1, 1807, 17053, 14376, 249, -53, 1, 18031, 28059, 11464, 230, -55>>,
      <<1, 3559, 1527, 15183, 124, -52, 1, 32233, 9620, 17171, 119, -54>>,
      <<1, 23827, 8057, 6483, 124, -52, 1, 19345, 32348, 15826, 15, -51>>,
      <<1, 31239, 17059, 30241, 123, -52, 1, 3771, 23103, 3187, 64, -53>>,
      <<1, 24459, 18248, 20922, 123, -52, 1, 1671, 806, 16887, 132, -54>>,
      <<1, 24321, 2110, 11295, 123, -52, 1, 309, 31423, 27067, 136, -54>>,
      <<1, 31615, 18108, 2719, 246, -53, 1, 9099, 28313, 9226, 35, -52>>,
      <<1, 5569, 29441, 15002, 245, -53, 1, 12637, 25736, 13626, 145, -54>>,
      <<1, 24281, 18151, 21313, 7, -48, 1, 27363, 20355, 27759, 74, -53>>,
      <<1, 6847, 5778, 20635, 7, -48, 1, 10275, 4939, 31502, 153, -54>>,
      <<1, 17493, 7206, 31164, 0, -45, 1, 26955, 28255, 7100, 158, -54>>,
      <<1, 4617, 27858, 22698, 60, -51, 1, 7105, 12424, 7536, 81, -53>>,
      <<1, 11571, 5631, 16816, 60, -51, 1, 13173, 26624, 22043, 41, -52>>,
      <<1, 32415, 31237, 10361, 241, -53, 1, 14167, 23673, 11915, 21, -51>>,
      <<1, 11547, 1188, 18393, 240, -53, 1, 3065, 26900, 3745, 175, -54>>,
      <<1, 8317, 26873, 25823, 239, -53, 1, 30859, 14420, 21400, 89, -53>>,
      <<1, 14341, 7679, 32656, 238, -53, 1, 21309, 16285, 15872, 183, -54>>,
      <<1, 27059, 8326, 6124, 238, -53, 1, 25107, 8028, 21254, 187, -54>>,
      <<1, 31083, 24165, 21950, 29, -50, 1, 5759, 24011, 26167, 191, -54>>,
      <<1, 18083, 20274, 8407, 118, -52, 1, 21683, 9902, 31685, 97, -53>>,
      <<1, 18023, 21253, 23857, 14, -49, 1, 32677, 17713, 1780, 200, -54>>,
      <<1, 20037, 6047, 11335, 29, -50, 1, 663, 26699, 1306, 51, -52>>,
      <<1, 24549, 22399, 15299, 58, -51, 1, 3435, 8454, 4082, 104, -53>>,
      <<1, 21183, 12994, 31132, 232, -53, 1, 21165, 12504, 8853, 13, -50>>,
      <<1, 22375, 24667, 484, 232, -53, 1, 6229, 28271, 12469, 216, -54>>,
      <<1, 4463, 17506, 25082, 57, -51, 1, 21615, 21677, 13817, 220, -54>>,
      <<1, 7269, 15190, 1495, 115, -52, 1, 1479, 13692, 14615, 224, -54>>,
      <<1, 5855, 22713, 20902, 28, -50, 1, 7497, 2925, 14853, 228, -54>>,
      <<1, 5687, 7485, 1600, 114, -52, 1, 24061, 22153, 14520, 232, -54>>,
      <<1, 22385, 5612, 2450, 227, -53, 1, 11165, 3636, 6804, 118, -53>>,
      <<1, 4997, 20333, 566, 113, -52, 1, 20593, 26696, 12105, 240, -54>>,
      <<1, 2965, 8579, 32020, 224, -53, 1, 10159, 19240, 10003, 244, -54>>,
      <<1, 7395, 30675, 31172, 111, -52, 1, 31247, 23997, 16839, 15, -50>>,
      <<1, 24515, 24700, 26576, 222, -53, 1, 10089, 14134, 3960, 252, -54>>,
      <<1, 9813, 26712, 27893, 110, -52, 1, 1, 0, 0, 0, -1>>,
      <<1, 677, 10390, 4727, 55, -51, 1, 6921, 6092, 31618, 64, -52>>,
      <<1, 30063, 7798, 23508, 109, -52, 1, 28553, 8445, 30306, 65, -52>>,
      <<1, 5141, 8245, 13453, 3, -47, 1, 5967, 26869, 28829, 66, -52>>,
      <<1, 10567, 1435, 3287, 217, -53, 1, 7077, 20395, 31372, 16, -50>>,
      <<1, 31785, 469, 16196, 13, -49, 1, 3373, 29376, 25373, 68, -52>>,
      <<1, 6125, 10414, 11463, 107, -52, 1, 30495, 12000, 14011, 139, -53>>,
      <<1, 1639, 20940, 24162, 106, -52, 1, 18343, 343, 9695, 141, -53>>,
      <<1, 15273, 26324, 1913, 53, -51, 1, 32019, 2083, 5026, 143, -53>>,
      <<1, 17661, 28990, 24381, 52, -51, 1, 30321, 29173, 32767, 144, -53>>,
      <<1, 1863, 12843, 23033, 209, -53, 1, 2351, 15903, 11614, 18, -50>>,
      <<1, 13585, 31136, 13551, 208, -53, 1, 287, 23919, 10812, 74, -52>>,
      <<1, 29865, 14127, 3550, 207, -53, 1, 22167, 570, 20259, 37, -51>>,
      <<1, 1161, 3009, 25800, 205, -53, 1, 13205, 19456, 4499, 76, -52>>,
      <<1, 31255, 7492, 14768, 204, -53, 1, 16051, 10411, 2118, 154, -53>>,
      <<1, 9363, 5806, 3226, 203, -53, 1, 5097, 32554, 27620, 155, -53>>,
      <<1, 17981, 19070, 19928, 12, -49, 1, 25757, 12733, 26367, 78, -52>>,
      <<1, 14635, 17128, 5696, 100, -52, 1, 7811, 26714, 27555, 39, -51>>,
      <<1, 13413, 19781, 28464, 24, -50, 1, 15711, 1096, 18121, 80, -52>>,
      <<1, 4999, 5020, 17560, 197, -53, 1, 19063, 2915, 2904, 5, -48>>,
      <<1, 10269, 8911, 1759, 98, -52, 1, 5659, 9336, 18141, 164, -53>>,
      <<1, 30601, 25661, 10877, 97, -52, 1, 28399, 3073, 8477, 166, -53>>,
      <<1, 7225, 26946, 6738, 193, -53, 1, 10217, 312, 31967, 83, -52>>,
      <<1, 7071, 31164, 24007, 191, -53, 1, 22095, 27440, 20667, 169, -53>>,
      <<1, 20219, 15681, 31869, 2, -47, 1, 1517, 5858, 21257, 85, -52>>,
      <<1, 26435, 9269, 12173, 94, -52, 1, 20563, 23270, 15582, 86, -52>>,
      <<1, 27009, 16784, 7423, 187, -53, 1, 9995, 7366, 21230, 43, -51>>,
      <<1, 13677, 2563, 19857, 11, -49, 1, 397, 11477, 3584, 88, -52>>,
      <<1, 19769, 19786, 4947, 184, -53, 1, 1841, 1564, 3753, 11, -49>>,
      <<1, 19409, 19855, 21234, 45, -51, 1, 3293, 8698, 28121, 44, -51>>,
      <<1, 7655, 26239, 16700, 90, -52, 1, 15307, 19710, 633, 181, -53>>,
      <<1, 6585, 17396, 23474, 89, -52, 1, 12103, 13886, 19402, 182, -53>>,
      <<1, 29459, 25024, 27280, 177, -53, 1, 9883, 26277, 2473, 92, -52>>,
      <<1, 797, 22954, 7168, 176, -53, 1, 21939, 10253, 13892, 46, -51>>,
      <<1, 19989, 14732, 9692, 87, -52, 1, 6753, 28772, 26431, 46, -51>>,
      <<1, 8361, 13773, 31165, 172, -53, 1, 20099, 18539, 24346, 188, -53>>,
      <<1, 16763, 9656, 13506, 21, -50, 1, 24417, 10291, 4015, 95, -52>>,
      <<1, 11049, 30104, 26717, 84, -52, 1, 7067, 31164, 24007, 191, -53>>,
      <<1, 20437, 624, 31166, 167, -53, 1, 3611, 13473, 19753, 96, -52>>,
      <<1, 28397, 3073, 8477, 166, -53, 1, 31685, 29214, 21822, 48, -51>>,
      <<1, 5663, 9336, 18141, 164, -53, 1, 20535, 17822, 3518, 196, -53>>,
      <<1, 21433, 23324, 23232, 40, -51, 1, 1249, 1255, 12582, 49, -51>>,
      <<1, 31419, 2192, 3474, 161, -53, 1, 20885, 13589, 15554, 99, -52>>,
      <<1, 18337, 31254, 31464, 9, -49, 1, 29267, 1488, 11393, 200, -53>>,
      <<1, 14631, 27759, 22975, 19, -50, 1, 12777, 21492, 28356, 100, -52>>,
      <<1, 5101, 32554, 27620, 155, -53, 1, 29257, 20842, 22729, 12, -49>>,
      <<1, 16055, 10411, 2118, 154, -53, 1, 7813, 1873, 3692, 51, -51>>,
      <<1, 26407, 6144, 8999, 152, -53, 1, 1163, 3009, 25800, 205, -53>>,
      <<1, 10963, 12359, 23012, 4, -48, 1, 31315, 7063, 18159, 103, -52>>,
      <<1, 571, 15070, 21625, 148, -53, 1, 13587, 31136, 13551, 208, -53>>,
      <<1, 4703, 31806, 23228, 36, -51, 1, 25041, 11402, 13950, 52, -51>>,
      <<1, 30325, 29173, 32767, 144, -53, 1, 5105, 17658, 31991, 210, -53>>,
      <<1, 32017, 2083, 5026, 143, -53, 1, 30547, 19880, 3827, 106, -52>>,
      <<1, 18347, 343, 9695, 141, -53, 1, 3275, 9112, 15557, 213, -53>>,
      <<1, 30493, 12000, 14011, 139, -53, 1, 3063, 21591, 22115, 53, -51>>,
      <<1, 6751, 25984, 17979, 137, -53, 1, 17037, 7519, 29760, 215, -53>>,
      <<1, 14155, 8022, 29977, 33, -51, 1, 27217, 24934, 9013, 54, -51>>,
      <<1, 11931, 20970, 24891, 133, -53, 1, 1345, 3402, 9040, 218, -53>>,
      <<1, 28555, 8445, 30306, 65, -52, 1, 15031, 3899, 28138, 54, -51>>,
      <<1, 6923, 6092, 31618, 64, -52, 1, 2705, 8792, 18909, 220, -53>>,
      <<1, 32763, 32767, 32767, 255, -54, 1, 4907, 29740, 13946, 55, -51>>,
      <<1, 5049, 7067, 1980, 126, -53, 1, 24513, 24700, 26576, 222, -53>>,
      <<1, 8427, 23519, 7291, 248, -54, 1, 14791, 28582, 29577, 223, -53>>,
      <<1, 1271, 14693, 17634, 30, -51, 1, 2963, 8579, 32020, 224, -53>>,
      <<1, 10301, 29732, 6052, 120, -53, 1, 9991, 7898, 1133, 226, -53>>,
      <<1, 5581, 1818, 3402, 59, -52, 1, 11193, 2806, 17609, 113, -52>>,
      <<1, 24069, 22153, 14520, 232, -54, 1, 11371, 14970, 3200, 228, -53>>,
      <<1, 10065, 8923, 3713, 57, -52, 1, 23421, 25316, 18074, 114, -52>>,
      <<1, 24669, 15191, 913, 14, -50, 1, 18201, 28373, 24949, 28, -50>>,
      <<1, 23183, 6805, 18111, 27, -51, 1, 8925, 2244, 17397, 115, -52>>,
      <<1, 31109, 12006, 17163, 13, -50, 1, 15085, 19467, 60, 29, -50>>,
      <<1, 10969, 3466, 10582, 212, -54, 1, 21181, 12994, 31132, 232, -53>>,
      <<1, 6865, 16908, 8164, 208, -54, 1, 32661, 24062, 28430, 233, -53>>,
      <<1, 2661, 8492, 5227, 204, -54, 1, 14611, 24190, 12572, 117, -52>>,
      <<1, 32727, 8856, 890, 100, -53, 1, 13111, 6188, 27021, 117, -52>>,
      <<1, 30027, 10858, 4028, 6, -49, 1, 3399, 7781, 16815, 236, -53>>,
      <<1, 13009, 31673, 31942, 23, -51, 1, 26027, 31127, 22266, 118, -52>>,
      <<1, 6279, 18391, 29889, 46, -52, 1, 27057, 8326, 6124, 238, -53>>,
      <<1, 21303, 16285, 15872, 183, -54, 1, 23555, 3839, 16328, 119, -52>>,
      <<1, 10121, 17285, 19769, 5, -49, 1, 10271, 31294, 31031, 59, -51>>,
      <<1, 765, 14917, 25512, 43, -52, 1, 2887, 8489, 4598, 60, -51>>,
      <<1, 15041, 25547, 29789, 170, -54, 1, 32413, 31237, 10361, 241, -53>>,
      <<1, 19933, 8193, 22639, 166, -54, 1, 23141, 11262, 864, 121, -52>>,
      <<1, 14205, 24848, 15072, 162, -54, 1, 18469, 13128, 25259, 242, -53>>,
      <<1, 26965, 28255, 7100, 158, -54, 1, 21759, 9864, 15416, 243, -53>>,
      <<1, 10269, 4939, 31502, 153, -54, 1, 22497, 21062, 4965, 244, -53>>,
      <<1, 15709, 31216, 11661, 9, -50, 1, 28047, 28283, 13336, 122, -52>>,
      <<1, 6323, 12868, 23197, 72, -53, 1, 599, 13772, 27370, 3, -47>>,
      <<1, 18195, 23858, 18453, 70, -53, 1, 15607, 8077, 30229, 1, -46>>,
      <<1, 319, 31423, 27067, 136, -54, 1, 15873, 4221, 22590, 246, -53>>,
      <<1, 12393, 14386, 9247, 8, -50, 1, 16149, 3729, 9077, 247, -53>>,
      <<1, 32315, 26472, 49, 1, -47, 1, 29709, 1351, 27715, 247, -53>>,
      <<1, 11849, 31090, 30539, 61, -53, 1, 14885, 16115, 12966, 248, -53>>,
      <<1, 31687, 19241, 1574, 239, -55, 1, 7119, 3054, 30366, 248, -53>>,
      <<1, 18051, 28059, 11464, 230, -55, 1, 17287, 8526, 23572, 124, -52>>,
      <<1, 9587, 10092, 20780, 221, -55, 1, 14939, 8121, 31650, 124, -52>>,
      <<1, 22763, 22660, 29542, 212, -55, 1, 29697, 28873, 31335, 1, -46>>,
      <<1, 22799, 29464, 2502, 102, -54, 1, 29199, 7096, 28204, 250, -53>>,
      <<1, 6291, 28347, 27757, 48, -53, 1, 23393, 26936, 21242, 125, -52>>,
      <<1, 7967, 25364, 9980, 93, -54, 1, 26149, 32499, 28069, 125, -52>>,
      <<1, 29581, 31766, 26729, 177, -55, 1, 7191, 6402, 3630, 252, -53>>,
      <<1, 6637, 10938, 16527, 84, -54, 1, 25529, 21091, 8013, 126, -52>>,
      <<1, 20647, 11678, 8240, 1, -48, 1, 25691, 10335, 27794, 252, -53>>,
      <<1, 23925, 27351, 11692, 151, -55, 1, 27335, 19525, 9732, 63, -51>>,
      <<1, 7723, 11547, 16818, 142, -55, 1, 5241, 21089, 16666, 253, -53>>,
      <<1, 20843, 3949, 27178, 66, -54, 1, 26779, 9688, 26538, 253, -53>>,
      <<1, 12643, 19535, 26024, 124, -55, 1, 4003, 4817, 17136, 63, -51>>,
      <<1, 13959, 17647, 30149, 115, -55, 1, 27735, 26774, 11612, 254, -53>>,
      <<1, 5595, 19870, 16992, 53, -54, 1, 13283, 5368, 9791, 127, -52>>,
      <<1, 4571, 25490, 17482, 1, -49, 1, 6053, 16803, 26916, 254, -53>>,
      <<1, 273, 29061, 16218, 178, -56, 1, 2769, 13336, 16807, 127, -52>>,
      <<1, 3647, 25715, 22420, 160, -56, 1, 24751, 23628, 6908, 255, -53>>,
      <<1, 20805, 23252, 28221, 142, -56, 1, 32763, 29040, 22550, 127, -52>>,
      <<1, 8917, 8981, 1796, 250, -57, 1, 2853, 25479, 24944, 127, -52>>,
      <<1, 29241, 9335, 19399, 53, -55, 1, 29455, 27922, 27019, 127, -52>>,
      <<1, 10011, 17513, 10895, 89, -56, 1, 17911, 29620, 24783, 255, -53>>,
      <<1, 28173, 18935, 15537, 71, -56, 1, 1383, 29054, 27657, 255, -53>>,
      <<1, 12997, 8648, 20001, 53, -56, 1, 17013, 14206, 29893, 255, -53>>,
      <<1, 23869, 22291, 31788, 142, -58, 1, 22469, 6133, 32129, 127, -52>>,
      <<1, 19353, 2346, 31967, 142, -59, 1, 18893, 19251, 32448, 255, -53>>,
      <<1, 29449, 32690, 16062, 176, -104, 1, 1, 0, 0, 0, 0>>,
      <<-1, 10631, 28965, 28571, 17, -56, 1, 18893, 19251, 32448, 255, -53>>,
      <<-1, 23693, 22291, 31788, 142, -58, 1, 22469, 6133, 32129, 127, -52>>,
      <<-1, 19043, 1825, 14469, 214, -58, 1, 17013, 14206, 29893, 255, -53>>,
      <<-1, 28193, 18935, 15537, 71, -56, 1, 1383, 29054, 27657, 255, -53>>,
      <<-1, 9967, 17513, 10895, 89, -56, 1, 17911, 29620, 24783, 255, -53>>,
      <<-1, 29251, 9335, 19399, 53, -55, 1, 26141, 23077, 21271, 255, -53>>,
      <<-1, 8829, 8981, 1796, 250, -57, 1, 5707, 18190, 17121, 255, -53>>,
      <<-1, 20761, 23252, 28221, 142, -56, 1, 32759, 25313, 12333, 255, -53>>,
      <<-1, 3667, 25715, 22420, 160, -56, 1, 24751, 23628, 6908, 255, -53>>,
      <<-1, 229, 29061, 16218, 178, -56, 1, 2769, 13336, 16807, 127, -52>>,
      <<-1, 15189, 29252, 2392, 49, -54, 1, 19411, 8401, 13458, 127, -52>>,
      <<-1, 30895, 620, 22035, 1, -49, 1, 13283, 5368, 9791, 127, -52>>,
      <<-1, 13937, 17647, 30149, 115, -55, 1, 28043, 19730, 26027, 31, -50>>,
      <<-1, 25305, 6302, 19281, 249, -56, 1, 16011, 19268, 3008, 254, -53>>,
      <<-1, 13963, 10363, 2897, 2, -49, 1, 6695, 18806, 14826, 63, -51>>,
      <<-1, 7701, 11547, 16818, 142, -55, 1, 19005, 10544, 24717, 126, -52>>,
      <<-1, 23903, 27351, 11692, 151, -55, 1, 11037, 12567, 6162, 253, -53>>,
      <<-1, 21385, 20304, 6189, 160, -55, 1, 25691, 10335, 27794, 252, -53>>,
      <<-1, 3321, 21853, 8263, 42, -53, 1, 25529, 21091, 8013, 126, -52>>,
      <<-1, 28271, 8066, 7437, 22, -52, 1, 9091, 25376, 16837, 31, -50>>,
      <<-1, 1993, 6341, 10687, 23, -52, 1, 26149, 32499, 28069, 125, -52>>,
      <<-1, 12587, 23926, 22747, 97, -54, 1, 14017, 21105, 9717, 251, -53>>,
      <<-1, 12809, 26161, 5005, 204, -55, 1, 18209, 25019, 22242, 15, -49>>,
      <<-1, 11371, 11330, 14771, 106, -54, 1, 129, 25844, 13296, 250, -53>>,
      <<-1, 9597, 10092, 20780, 221, -55, 1, 29877, 16242, 30532, 249, -53>>,
      <<-1, 18029, 28059, 11464, 230, -55, 1, 1807, 17053, 14376, 249, -53>>,
      <<-1, 31665, 19241, 1574, 239, -55, 1, 29117, 28862, 18281, 15, -49>>,
      <<-1, 14637, 26057, 23855, 247, -55, 1, 28297, 20412, 3241, 62, -51>>,
      <<-1, 7541, 13438, 6375, 128, -54, 1, 31239, 17059, 30241, 123, -52>>,
      <<-1, 835, 16787, 8443, 66, -53, 1, 24459, 18248, 20922, 123, -52>>,
      <<-1, 323, 31423, 27067, 136, -54, 1, 8031, 3976, 15788, 0, -44>>,
      <<-1, 3627, 14949, 4139, 141, -54, 1, 15607, 8077, 30229, 1, -46>>,
      <<-1, 12635, 25736, 13626, 145, -54, 1, 5569, 29441, 15002, 245, -53>>,
      <<-1, 27355, 20355, 27759, 74, -53, 1, 28049, 28283, 13336, 122, -52>>,
      <<-1, 21521, 2469, 32135, 76, -53, 1, 6847, 5778, 20635, 7, -48>>,
      <<-1, 29861, 14127, 3550, 79, -53, 1, 17493, 7206, 31164, 0, -45>>,
      <<-1, 7097, 12424, 7536, 81, -53, 1, 9235, 22948, 12629, 121, -52>>,
      <<-1, 26353, 20480, 11319, 83, -53, 1, 23141, 11262, 864, 121, -52>>,
      <<-1, 15031, 25547, 29789, 170, -54, 1, 32415, 31237, 10361, 241, -53>>,
      <<-1, 3049, 26900, 3745, 175, -54, 1, 5775, 16978, 9196, 120, -52>>,
      <<-1, 15433, 7210, 27084, 44, -52, 1, 8315, 26873, 25823, 239, -53>>,
      <<-1, 13519, 4071, 28544, 45, -52, 1, 14341, 7679, 32656, 238, -53>>,
      <<-1, 12553, 4014, 27011, 93, -53, 1, 27059, 8326, 6124, 238, -53>>,
      <<-1, 26019, 30578, 31117, 47, -52, 1, 26027, 31127, 22266, 118, -52>>,
      <<-1, 10597, 19805, 30602, 195, -54, 1, 18083, 20274, 8407, 118, -52>>,
      <<-1, 16361, 4428, 445, 50, -52, 1, 18023, 21253, 23857, 14, -49>>,
      <<-1, 659, 26699, 1306, 51, -52, 1, 29227, 15612, 25145, 234, -53>>,
      <<-1, 6869, 16908, 8164, 208, -54, 1, 24549, 22399, 15299, 58, -51>>,
      <<-1, 10959, 3466, 10582, 212, -54, 1, 21183, 12994, 31132, 232, -53>>,
      <<-1, 19491, 30519, 6234, 108, -53, 1, 27573, 12333, 242, 116, -52>>,
      <<-1, 21629, 21677, 13817, 220, -54, 1, 17849, 4488, 2026, 231, -53>>,
      <<-1, 739, 23230, 7307, 112, -53, 1, 7269, 15190, 1495, 115, -52>>,
      <<-1, 20125, 17846, 7426, 114, -53, 1, 11711, 12658, 9037, 57, -51>>,
      <<-1, 28421, 11076, 7260, 116, -53, 1, 5685, 7485, 1600, 114, -52>>,
      <<-1, 22329, 7272, 13608, 236, -54, 1, 22385, 5612, 2450, 227, -53>>,
      <<-1, 17671, 20100, 756, 15, -50, 1, 4997, 20333, 566, 113, -52>>,
      <<-1, 2543, 29386, 2500, 61, -52, 1, 17865, 4289, 16010, 112, -52>>,
      <<-1, 8431, 23519, 7291, 248, -54, 1, 7395, 30675, 31172, 111, -52>>,
      <<-1, 25837, 1766, 16879, 31, -51, 1, 6129, 6175, 23028, 55, -51>>,
      <<-1, 32761, 32767, 32767, 127, -53, 1, 19631, 20656, 23019, 221, -53>>,
      <<-1, 1731, 17907, 7904, 16, -50, 1, 16553, 27173, 25757, 13, -49>>,
      <<-1, 28553, 8445, 30306, 65, -52, 1, 27359, 15597, 14248, 219, -53>>,
      <<-1, 11927, 20970, 24891, 133, -53, 1, 16721, 850, 18644, 54, -51>>,
      <<-1, 28311, 16044, 27186, 67, -52, 1, 10563, 1435, 3287, 217, -53>>,
      <<-1, 3373, 29376, 25373, 68, -52, 1, 31785, 469, 16196, 13, -49>>,
      <<-1, 3811, 13788, 14039, 17, -50, 1, 12255, 20828, 22926, 214, -53>>,
      <<-1, 18349, 343, 9695, 141, -53, 1, 1637, 20940, 24162, 106, -52>>,
      <<-1, 32019, 2083, 5026, 143, -53, 1, 15273, 26324, 1913, 53, -51>>,
      <<-1, 12135, 32543, 2047, 9, -49, 1, 17661, 28990, 24381, 52, -51>>,
      <<-1, 18801, 28920, 27379, 146, -53, 1, 25043, 11402, 13950, 52, -51>>,
      <<-1, 573, 15070, 21625, 148, -53, 1, 6793, 31952, 6775, 104, -52>>,
      <<-1, 22167, 570, 20259, 37, -51, 1, 31317, 7063, 18159, 103, -52>>,
      <<-1, 26403, 6144, 8999, 152, -53, 1, 16967, 1504, 29284, 102, -52>>,
      <<-1, 16057, 10411, 2118, 154, -53, 1, 15625, 3746, 7384, 102, -52>>,
      <<-1, 5097, 32554, 27620, 155, -53, 1, 9363, 5806, 3226, 203, -53>>,
      <<-1, 29261, 22750, 13183, 39, -51, 1, 12779, 21492, 28356, 100, -52>>,
      <<-1, 15625, 20660, 22343, 79, -52, 1, 29265, 1488, 11393, 200, -53>>,
      <<-1, 31421, 2192, 3474, 161, -53, 1, 13413, 19781, 28464, 24, -50>>,
      <<-1, 19063, 2915, 2904, 5, -48, 1, 4999, 5020, 17560, 197, -53>>,
      <<-1, 5665, 9336, 18141, 164, -53, 1, 20533, 17822, 3518, 196, -53>>,
      <<-1, 28399, 3073, 8477, 166, -53, 1, 30601, 25661, 10877, 97, -52>>,
      <<-1, 20433, 624, 31166, 167, -53, 1, 7225, 26946, 6738, 193, -53>>,
      <<-1, 2761, 15718, 6679, 21, -50, 1, 1769, 32367, 30577, 47, -51>>,
      <<-1, 1517, 5858, 21257, 85, -52, 1, 20219, 15681, 31869, 2, -47>>,
      <<-1, 8357, 13773, 31165, 172, -53, 1, 26435, 9269, 12173, 94, -52>>,
      <<-1, 19987, 14732, 9692, 87, -52, 1, 27015, 16784, 7423, 187, -53>>,
      <<-1, 799, 22954, 7168, 176, -53, 1, 22219, 8246, 22801, 185, -53>>,
      <<-1, 29455, 25024, 27280, 177, -53, 1, 19769, 19786, 4947, 184, -53>>,
      <<-1, 6583, 17396, 23474, 89, -52, 1, 6053, 6943, 9701, 91, -52>>,
      <<-1, 29629, 19663, 10279, 11, -49, 1, 15305, 19710, 633, 181, -53>>,
      <<-1, 6051, 6943, 9701, 91, -52, 1, 6585, 17396, 23474, 89, -52>>,
      <<-1, 19765, 19786, 4947, 184, -53, 1, 7365, 6256, 15012, 44, -51>>,
      <<-1, 22225, 8246, 22801, 185, -53, 1, 8291, 2869, 896, 22, -50>>,
      <<-1, 27011, 16784, 7423, 187, -53, 1, 19989, 14732, 9692, 87, -52>>,
      <<-1, 26433, 9269, 12173, 94, -52, 1, 20565, 23270, 15582, 86, -52>>,
      <<-1, 28591, 21529, 18391, 47, -51, 1, 1519, 5858, 21257, 85, -52>>,
      <<-1, 28893, 8141, 32494, 5, -48, 1, 22093, 27440, 20667, 169, -53>>,
      <<-1, 7221, 26946, 6738, 193, -53, 1, 10219, 312, 31967, 83, -52>>,
      <<-1, 30599, 25661, 10877, 97, -52, 1, 28403, 3073, 8477, 166, -53>>,
      <<-1, 21519, 20839, 879, 49, -51, 1, 2829, 21052, 9070, 82, -52>>,
      <<-1, 4995, 5020, 17560, 197, -53, 1, 20197, 27762, 27394, 162, -53>>,
      <<-1, 26825, 6794, 24161, 49, -51, 1, 15713, 1096, 18121, 80, -52>>,
      <<-1, 29271, 1488, 11393, 200, -53, 1, 15621, 20660, 22343, 79, -52>>,
      <<-1, 12777, 21492, 28356, 100, -52, 1, 18745, 25467, 19966, 157, -53>>,
      <<-1, 9359, 5806, 3226, 203, -53, 1, 5101, 32554, 27620, 155, -53>>,
      <<-1, 31247, 7492, 14768, 204, -53, 1, 24415, 5205, 1059, 77, -52>>,
      <<-1, 16965, 1504, 29284, 102, -52, 1, 3301, 29440, 1124, 19, -50>>,
      <<-1, 31315, 7063, 18159, 103, -52, 1, 10963, 12359, 23012, 4, -48>>,
      <<-1, 6791, 31952, 6775, 104, -52, 1, 289, 23919, 10812, 74, -52>>,
      <<-1, 1865, 12843, 23033, 209, -53, 1, 9403, 30844, 13689, 73, -52>>,
      <<-1, 5105, 17658, 31991, 210, -53, 1, 30325, 29173, 32767, 144, -53>>,
      <<-1, 28321, 6993, 7655, 212, -53, 1, 16291, 8452, 29300, 17, -50>>,
      <<-1, 3279, 9112, 15557, 213, -53, 1, 18341, 343, 9695, 141, -53>>,
      <<-1, 3063, 21591, 22115, 53, -51, 1, 30493, 12000, 14011, 139, -53>>,
      <<-1, 17037, 7519, 29760, 215, -53, 1, 6751, 25984, 17979, 137, -53>>,
      <<-1, 13609, 28851, 4506, 27, -50, 1, 28307, 16044, 27186, 67, -52>>,
      <<-1, 1345, 3402, 9040, 218, -53, 1, 19367, 29818, 14414, 33, -51>>,
      <<-1, 15031, 3899, 28138, 54, -51, 1, 24343, 16891, 27844, 131, -53>>,
      <<-1, 2701, 8792, 18909, 220, -53, 1, 13853, 12184, 30468, 129, -53>>,
      <<-1, 4907, 29740, 13946, 55, -51, 1, 32767, 32767, 32767, 63, -52>>,
      <<-1, 24513, 24700, 26576, 222, -53, 1, 10099, 14134, 3960, 252, -54>>,
      <<-1, 14787, 28582, 29577, 223, -53, 1, 20605, 28143, 3645, 124, -53>>,
      <<-1, 2967, 8579, 32020, 224, -53, 1, 10155, 19240, 10003, 244, -54>>,
      <<-1, 9991, 7898, 1133, 226, -53, 1, 20603, 26696, 12105, 240, -54>>,
      <<-1, 11191, 2806, 17609, 113, -52, 1, 22339, 7272, 13608, 236, -54>>,
      <<-1, 11375, 14970, 3200, 228, -53, 1, 7103, 2769, 1815, 29, -51>>,
      <<-1, 23421, 25316, 18074, 114, -52, 1, 7493, 2925, 14853, 228, -54>>,
      <<-1, 14535, 30380, 2990, 230, -53, 1, 1489, 13692, 14615, 224, -54>>,
      <<-1, 17853, 4488, 2026, 231, -53, 1, 21611, 21677, 13817, 220, -54>>,
      <<-1, 15085, 19467, 60, 29, -50, 1, 6225, 28271, 12469, 216, -54>>,
      <<-1, 21679, 3248, 7783, 58, -51, 1, 5485, 1733, 5291, 106, -53>>,
      <<-1, 16329, 12031, 30599, 116, -52, 1, 6881, 16908, 8164, 208, -54>>,
      <<-1, 29225, 15612, 25145, 234, -53, 1, 2647, 8492, 5227, 204, -54>>,
      <<-1, 13111, 6188, 27021, 117, -52, 1, 32687, 17713, 1780, 200, -54>>,
      <<-1, 3395, 7781, 16815, 236, -53, 1, 27287, 21717, 8056, 12, -50>>,
      <<-1, 19289, 29487, 11765, 237, -53, 1, 19261, 28389, 29467, 95, -53>>,
      <<-1, 27057, 8326, 6124, 238, -53, 1, 25117, 8028, 21254, 187, -54>>,
      <<-1, 14339, 7679, 32656, 238, -53, 1, 21319, 16285, 15872, 183, -54>>,
      <<-1, 20543, 29820, 29295, 119, -52, 1, 30857, 14420, 21400, 89, -53>>,
      <<-1, 2887, 8489, 4598, 60, -51, 1, 3061, 26900, 3745, 175, -54>>,
      <<-1, 32413, 31237, 10361, 241, -53, 1, 23905, 29157, 14894, 85, -53>>,
      <<-1, 13517, 22525, 1728, 242, -53, 1, 19919, 8193, 22639, 166, -54>>,
      <<-1, 18469, 13128, 25259, 242, -53, 1, 7103, 12424, 7536, 81, -53>>,
      <<-1, 10879, 4932, 24092, 121, -52, 1, 29867, 14127, 3550, 79, -53>>,
      <<-1, 11247, 26915, 2482, 122, -52, 1, 10285, 4939, 31502, 153, -54>>,
      <<-1, 24281, 18151, 21313, 7, -48, 1, 21953, 7943, 22751, 149, -54>>,
      <<-1, 5567, 29441, 15002, 245, -53, 1, 12647, 25736, 13626, 145, -54>>,
      <<-1, 15807, 25438, 1359, 123, -52, 1, 18203, 23858, 18453, 70, -53>>,
      <<-1, 15875, 4221, 22590, 246, -53, 1, 30739, 24491, 18075, 8, -50>>,
      <<-1, 16149, 3729, 9077, 247, -53, 1, 1681, 806, 16887, 132, -54>>,
      <<-1, 29709, 1351, 27715, 247, -53, 1, 7553, 13438, 6375, 128, -54>>,
      <<-1, 23827, 8057, 6483, 124, -52, 1, 14599, 26057, 23855, 247, -55>>,
      <<-1, 7119, 3054, 30366, 248, -53, 1, 31689, 19241, 1574, 239, -55>>,
      <<-1, 17287, 8526, 23572, 124, -52, 1, 18053, 28059, 11464, 230, -55>>,
      <<-1, 23853, 4060, 15825, 62, -51, 1, 2405, 2523, 13387, 55, -53>>,
      <<-1, 29697, 28873, 31335, 1, -46, 1, 11383, 11330, 14771, 106, -54>>,
      <<-1, 29199, 7096, 28204, 250, -53, 1, 12833, 26161, 5005, 204, -55>>,
      <<-1, 25307, 27465, 30359, 3, -47, 1, 25197, 15084, 12727, 195, -55>>,
      <<-1, 19531, 32231, 23371, 251, -53, 1, 15905, 17960, 19961, 186, -55>>,
      <<-1, 7191, 6402, 3630, 252, -53, 1, 29583, 31766, 26729, 177, -55>>,
      <<-1, 18289, 9415, 16027, 252, -53, 1, 3327, 21853, 8263, 42, -53>>,
      <<-1, 30999, 18967, 6948, 63, -51, 1, 10673, 26536, 3094, 80, -54>>,
      <<-1, 27335, 19525, 9732, 63, -51, 1, 23927, 27351, 11692, 151, -55>>,
      <<-1, 5241, 21089, 16666, 253, -53, 1, 7725, 11547, 16818, 142, -55>>,
      <<-1, 6695, 18806, 14826, 63, -51, 1, 8889, 7899, 21588, 133, -55>>,
      <<-1, 4003, 4817, 17136, 63, -51, 1, 12645, 19535, 26024, 124, -55>>,
      <<-1, 27735, 26774, 11612, 254, -53, 1, 13961, 17647, 30149, 115, -55>>,
      <<-1, 13283, 5368, 9791, 127, -52, 1, 22449, 13944, 2434, 214, -56>>,
      <<-1, 19411, 8401, 13458, 127, -52, 1, 27973, 18705, 9571, 196, -56>>,
      <<-1, 2769, 13336, 16807, 127, -52, 1, 16523, 14530, 8109, 89, -55>>,
      <<-1, 24751, 23628, 6908, 255, -53, 1, 3715, 25715, 22420, 160, -56>>,
      <<-1, 32759, 25313, 12333, 255, -53, 1, 20745, 23252, 28221, 142, -56>>,
      <<-1, 2853, 25479, 24944, 127, -52, 1, 20847, 4490, 898, 125, -56>>,
      <<-1, 26141, 23077, 21271, 255, -53, 1, 18797, 4575, 12061, 214, -57>>,
      <<-1, 17911, 29620, 24783, 255, -53, 1, 19903, 2258, 21791, 178, -57>>,
      <<-1, 1383, 29054, 27657, 255, -53, 1, 23587, 5103, 31075, 142, -57>>,
      <<-1, 17013, 14206, 29893, 255, -53, 1, 19237, 1825, 14469, 214, -58>>,
      <<-1, 22469, 6133, 32129, 127, -52, 1, 23631, 22291, 31788, 142, -58>>,
      <<-1, 18893, 19251, 32448, 255, -53, 1, 21231, 25162, 24375, 35, -57>>,
      <<-1, 1, 0, 0, 0, 0, 1, 17669, 19614, 29298, 105, -103>>,
      <<-1, 18893, 19251, 32448, 255, -53, -1, 21125, 25162, 24375, 35, -57>>,
      <<-1, 22469, 6133, 32129, 127, -52, -1, 23931, 22291, 31788, 142, -58>>,
      <<-1, 17013, 14206, 29893, 255, -53, -1, 25897, 17296, 7234, 107, -57>>,
      <<-1, 1383, 29054, 27657, 255, -53, -1, 23481, 5103, 31075, 142, -57>>,
      <<-1, 8955, 31194, 28775, 127, -52, -1, 20053, 2258, 21791, 178, -57>>,
      <<-1, 26141, 23077, 21271, 255, -53, -1, 18691, 4575, 12061, 214, -57>>,
      <<-1, 5707, 18190, 17121, 255, -53, -1, 10397, 2245, 16833, 62, -55>>,
      <<-1, 32763, 29040, 22550, 127, -52, -1, 5205, 14005, 23439, 35, -54>>,
      <<-1, 24751, 23628, 6908, 255, -53, -1, 18215, 12857, 11210, 80, -55>>,
      <<-1, 2769, 13336, 16807, 127, -52, -1, 225, 29061, 16218, 178, -56>>,
      <<-1, 19411, 8401, 13458, 127, -52, -1, 3793, 7313, 8790, 12, -52>>,
      <<-1, 13283, 5368, 9791, 127, -52, -1, 5599, 19870, 16992, 53, -54>>,
      <<-1, 28043, 19730, 26027, 31, -50, -1, 13935, 17647, 30149, 115, -55>>,
      <<-1, 4003, 4817, 17136, 63, -51, -1, 25237, 6302, 19281, 249, -56>>,
      <<-1, 26779, 9688, 26538, 253, -53, -1, 20847, 3949, 27178, 66, -54>>,
      <<-1, 19005, 10544, 24717, 126, -52, -1, 7699, 11547, 16818, 142, -55>>,
      <<-1, 11037, 12567, 6162, 253, -53, -1, 23901, 27351, 11692, 151, -55>>,
      <<-1, 25691, 10335, 27794, 252, -53, -1, 21383, 20304, 6189, 160, -55>>,
      <<-1, 25529, 21091, 8013, 126, -52, -1, 6641, 10938, 16527, 84, -54>>,
      <<-1, 9091, 25376, 16837, 31, -50, -1, 29557, 31766, 26729, 177, -55>>,
      <<-1, 26149, 32499, 28069, 125, -52, -1, 7971, 25364, 9980, 93, -54>>,
      <<-1, 23393, 26936, 21242, 125, -52, -1, 25171, 15084, 12727, 195, -55>>,
      <<-1, 18209, 25019, 22242, 15, -49, -1, 12807, 26161, 5005, 204, -55>>,
      <<-1, 129, 25844, 13296, 250, -53, -1, 5685, 22049, 7385, 53, -53>>,
      <<-1, 14939, 8121, 31650, 124, -52, -1, 4797, 5046, 26774, 110, -54>>,
      <<-1, 1807, 17053, 14376, 249, -53, -1, 18027, 28059, 11464, 230, -55>>,
      <<-1, 29117, 28862, 18281, 15, -49, -1, 31663, 19241, 1574, 239, -55>>,
      <<-1, 28297, 20412, 3241, 62, -51, -1, 14635, 26057, 23855, 247, -55>>,
      <<-1, 29711, 1351, 27715, 247, -53, -1, 18269, 27935, 1593, 32, -52>>,
      <<-1, 24459, 18248, 20922, 123, -52, -1, 1669, 806, 16887, 132, -54>>,
      <<-1, 8031, 3976, 15788, 0, -44, -1, 16545, 32095, 13533, 68, -53>>,
      <<-1, 15607, 8077, 30229, 1, -46, -1, 18197, 23858, 18453, 70, -53>>,
      <<-1, 5569, 29441, 15002, 245, -53, -1, 6317, 12868, 23197, 72, -53>>,
      <<-1, 28047, 28283, 13336, 122, -52, -1, 21971, 7943, 22751, 149, -54>>,
      <<-1, 6847, 5778, 20635, 7, -48, -1, 10273, 4939, 31502, 153, -54>>,
      <<-1, 17493, 7206, 31164, 0, -45, -1, 26953, 28255, 7100, 158, -54>>,
      <<-1, 18471, 13128, 25259, 242, -53, -1, 14193, 24848, 15072, 162, -54>>,
      <<-1, 23141, 11262, 864, 121, -52, -1, 19937, 8193, 22639, 166, -54>>,
      <<-1, 32415, 31237, 10361, 241, -53, -1, 23899, 29157, 14894, 85, -53>>,
      <<-1, 5775, 16978, 9196, 120, -52, -1, 16765, 7458, 29140, 21, -51>>,
      <<-1, 8315, 26873, 25823, 239, -53, -1, 28963, 28841, 10032, 179, -54>>,
      <<-1, 14341, 7679, 32656, 238, -53, -1, 21307, 16285, 15872, 183, -54>>,
      <<-1, 23149, 2081, 17915, 59, -51, -1, 25105, 8028, 21254, 187, -54>>,
      <<-1, 26027, 31127, 22266, 118, -52, -1, 5771, 24011, 26167, 191, -54>>,
      <<-1, 18083, 20274, 8407, 118, -52, -1, 10841, 21335, 32226, 48, -52>>,
      <<-1, 18023, 21253, 23857, 14, -49, -1, 32675, 17713, 1780, 200, -54>>,
      <<-1, 7307, 12095, 22670, 58, -51, -1, 2635, 8492, 5227, 204, -54>>,
      <<-1, 24549, 22399, 15299, 58, -51, -1, 1717, 4227, 2041, 52, -52>>,
      <<-1, 21183, 12994, 31132, 232, -53, -1, 5479, 1733, 5291, 106, -53>>,
      <<-1, 22379, 24667, 484, 232, -53, -1, 6213, 28271, 12469, 216, -54>>,
      <<-1, 17849, 4488, 2026, 231, -53, -1, 13599, 13611, 3454, 55, -52>>,
      <<-1, 7269, 15190, 1495, 115, -52, -1, 1477, 13692, 14615, 224, -54>>,
      <<-1, 11711, 12658, 9037, 57, -51, -1, 7481, 2925, 14853, 228, -54>>,
      <<-1, 11371, 14970, 3200, 228, -53, -1, 24073, 22153, 14520, 232, -54>>,
      <<-1, 22385, 5612, 2450, 227, -53, -1, 2791, 909, 18085, 29, -51>>,
      <<-1, 4997, 20333, 566, 113, -52, -1, 20591, 26696, 12105, 240, -54>>,
      <<-1, 17865, 4289, 16010, 112, -52, -1, 10171, 19240, 10003, 244, -54>>,
      <<-1, 7395, 30675, 31172, 111, -52, -1, 20599, 28143, 3645, 124, -53>>,
      <<-1, 6129, 6175, 23028, 55, -51, -1, 10087, 14134, 3960, 252, -54>>,
      <<-1, 19631, 20656, 23019, 221, -53, -1, 32753, 32767, 32767, 255, -54>>,
      <<-1, 16553, 27173, 25757, 13, -49, -1, 1731, 17907, 7904, 16, -50>>,
      <<-1, 27359, 15597, 14248, 219, -53, -1, 24337, 16891, 27844, 131, -53>>,
      <<-1, 16721, 850, 18644, 54, -51, -1, 5963, 26869, 28829, 66, -52>>,
      <<-1, 10563, 1435, 3287, 217, -53, -1, 28311, 16044, 27186, 67, -52>>,
      <<-1, 17041, 7519, 29760, 215, -53, -1, 6745, 25984, 17979, 137, -53>>,
      <<-1, 12255, 20828, 22926, 214, -53, -1, 3811, 13788, 14039, 17, -50>>,
      <<-1, 1637, 20940, 24162, 106, -52, -1, 29163, 24661, 10615, 35, -51>>,
      <<-1, 28325, 6993, 7655, 212, -53, -1, 32393, 1041, 18897, 71, -52>>,
      <<-1, 17661, 28990, 24381, 52, -51, -1, 12135, 32543, 2047, 9, -49>>,
      <<-1, 1859, 12843, 23033, 209, -53, -1, 9407, 30844, 13689, 73, -52>>,
      <<-1, 6793, 31952, 6775, 104, -52, -1, 573, 15070, 21625, 148, -53>>,
      <<-1, 31317, 7063, 18159, 103, -52, -1, 23131, 2282, 15500, 150, -53>>,
      <<-1, 16967, 1504, 29284, 102, -52, -1, 26403, 6144, 8999, 152, -53>>,
      <<-1, 31251, 7492, 14768, 204, -53, -1, 14295, 25877, 8456, 19, -50>>,
      <<-1, 9363, 5806, 3226, 203, -53, -1, 8829, 20453, 15740, 19, -50>>,
      <<-1, 12779, 21492, 28356, 100, -52, -1, 18739, 25467, 19966, 157, -53>>,
      <<-1, 29265, 1488, 11393, 200, -53, -1, 31249, 8552, 11919, 159, -53>>,
      <<-1, 13413, 19781, 28464, 24, -50, -1, 31421, 2192, 3474, 161, -53>>,
      <<-1, 4999, 5020, 17560, 197, -53, -1, 19063, 2915, 2904, 5, -48>>,
      <<-1, 10267, 8911, 1759, 98, -52, -1, 5665, 9336, 18141, 164, -53>>,
      <<-1, 28435, 18555, 21755, 194, -53, -1, 30583, 17920, 4238, 83, -52>>,
      <<-1, 3613, 13473, 19753, 96, -52, -1, 20433, 624, 31166, 167, -53>>,
      <<-1, 7077, 31164, 24007, 191, -53, -1, 2761, 15718, 6679, 21, -50>>,
      <<-1, 16065, 20583, 8030, 190, -53, -1, 3033, 11716, 9746, 171, -53>>,
      <<-1, 20103, 18539, 24346, 188, -53, -1, 8357, 13773, 31165, 172, -53>>,
      <<-1, 3377, 30770, 13215, 23, -50, -1, 7205, 29465, 19384, 174, -53>>,
      <<-1, 22219, 8246, 22801, 185, -53, -1, 799, 22954, 7168, 176, -53>>,
      <<-1, 9885, 26277, 2473, 92, -52, -1, 29455, 25024, 27280, 177, -53>>,
      <<-1, 12107, 13886, 19402, 182, -53, -1, 13165, 2024, 14181, 179, -53>>,
      <<-1, 15305, 19710, 633, 181, -53, -1, 29629, 19663, 10279, 11, -49>>,
      <<-1, 6585, 17396, 23474, 89, -52, -1, 6051, 6943, 9701, 91, -52>>,
      <<-1, 7365, 6256, 15012, 44, -51, -1, 19765, 19786, 4947, 184, -53>>,
      <<-1, 8291, 2869, 896, 22, -50, -1, 22225, 8246, 22801, 185, -53>>,
      <<-1, 7211, 29465, 19384, 174, -53, -1, 27011, 16784, 7423, 187, -53>>,
      <<-1, 20565, 23270, 15582, 86, -52, -1, 26433, 9269, 12173, 94, -52>>,
      <<-1, 1519, 5858, 21257, 85, -52, -1, 28591, 21529, 18391, 47, -51>>,
      <<-1, 22093, 27440, 20667, 169, -53, -1, 28893, 8141, 32494, 5, -48>>,
      <<-1, 10219, 312, 31967, 83, -52, -1, 7221, 26946, 6738, 193, -53>>,
      <<-1, 15293, 8960, 18503, 41, -51, -1, 30599, 25661, 10877, 97, -52>>,
      <<-1, 2829, 21052, 9070, 82, -52, -1, 20539, 17822, 3518, 196, -53>>,
      <<-1, 20197, 27762, 27394, 162, -53, -1, 4995, 5020, 17560, 197, -53>>,
      <<-1, 15713, 1096, 18121, 80, -52, -1, 26825, 6794, 24161, 49, -51>>,
      <<-1, 15621, 20660, 22343, 79, -52, -1, 29271, 1488, 11393, 200, -53>>,
      <<-1, 18745, 25467, 19966, 157, -53, -1, 25553, 10216, 23945, 201, -53>>,
      <<-1, 2551, 16277, 30194, 77, -52, -1, 9359, 5806, 3226, 203, -53>>,
      <<-1, 16049, 10411, 2118, 154, -53, -1, 20291, 936, 18230, 25, -50>>,
      <<-1, 3301, 29440, 1124, 19, -50, -1, 16965, 1504, 29284, 102, -52>>,
      <<-1, 23137, 2282, 15500, 150, -53, -1, 31315, 7063, 18159, 103, -52>>,
      <<-1, 579, 15070, 21625, 148, -53, -1, 6791, 31952, 6775, 104, -52>>,
      <<-1, 9403, 30844, 13689, 73, -52, -1, 12521, 5701, 6975, 26, -50>>,
      <<-1, 31547, 30970, 16383, 72, -52, -1, 20799, 15439, 6095, 13, -49>>,
      <<-1, 16291, 8452, 29300, 17, -50, -1, 28321, 6993, 7655, 212, -53>>,
      <<-1, 18341, 343, 9695, 141, -53, -1, 3279, 9112, 15557, 213, -53>>,
      <<-1, 15247, 22384, 23389, 69, -52, -1, 12251, 20828, 22926, 214, -53>>,
      <<-1, 6751, 25984, 17979, 137, -53, -1, 17037, 7519, 29760, 215, -53>>,
      <<-1, 28307, 16044, 27186, 67, -52, -1, 13609, 28851, 4506, 27, -50>>,
      <<-1, 19367, 29818, 14414, 33, -51, -1, 1345, 3402, 9040, 218, -53>>,
      <<-1, 24343, 16891, 27844, 131, -53, -1, 27355, 15597, 14248, 219, -53>>,
      <<-1, 6927, 6092, 31618, 64, -52, -1, 2701, 8792, 18909, 220, -53>>,
      <<-1, 32765, 32767, 32767, 255, -54, -1, 19627, 20656, 23019, 221, -53>>,
      <<-1, 18909, 3533, 990, 63, -52, -1, 31103, 8577, 15775, 3, -47>>,
      <<-1, 8443, 23519, 7291, 248, -54, -1, 14787, 28582, 29577, 223, -53>>,
      <<-1, 2539, 29386, 2500, 61, -52, -1, 17867, 4289, 16010, 112, -52>>,
      <<-1, 5151, 14866, 3026, 60, -52, -1, 9991, 7898, 1133, 226, -53>>,
      <<-1, 5585, 1818, 3402, 59, -52, -1, 11191, 2806, 17609, 113, -52>>,
      <<-1, 24057, 22153, 14520, 232, -54, -1, 11375, 14970, 3200, 228, -53>>,
      <<-1, 20131, 17846, 7426, 114, -53, -1, 14073, 17865, 3381, 229, -53>>,
      <<-1, 745, 23230, 7307, 112, -53, -1, 14535, 30380, 2990, 230, -53>>,
      <<-1, 13595, 13611, 3454, 55, -52, -1, 17853, 4488, 2026, 231, -53>>,
      <<-1, 19497, 30519, 6234, 108, -53, -1, 15085, 19467, 60, 29, -50>>,
      <<-1, 10971, 3466, 10582, 212, -54, -1, 21679, 3248, 7783, 58, -51>>,
      <<-1, 3441, 8454, 4082, 104, -53, -1, 16329, 12031, 30599, 116, -52>>,
      <<-1, 16715, 13349, 17037, 25, -51, -1, 29225, 15612, 25145, 234, -53>>,
      <<-1, 4091, 9299, 16495, 12, -50, -1, 26221, 12376, 21274, 235, -53>>,
      <<-1, 10609, 19805, 30602, 195, -54, -1, 3395, 7781, 16815, 236, -53>>,
      <<-1, 5755, 24011, 26167, 191, -54, -1, 19289, 29487, 11765, 237, -53>>,
      <<-1, 12559, 4014, 27011, 93, -53, -1, 27057, 8326, 6124, 238, -53>>,
      <<-1, 23145, 2035, 30656, 22, -51, -1, 14339, 7679, 32656, 238, -53>>,
      <<-1, 28947, 28841, 10032, 179, -54, -1, 20543, 29820, 29295, 119, -52>>,
      <<-1, 1531, 29834, 18256, 87, -53, -1, 2887, 8489, 4598, 60, -51>>,
      <<-1, 15043, 25547, 29789, 170, -54, -1, 32413, 31237, 10361, 241, -53>>,
      <<-1, 3293, 31232, 13702, 10, -50, -1, 13517, 22525, 1728, 242, -53>>,
      <<-1, 14207, 24848, 15072, 162, -54, -1, 4617, 27858, 22698, 60, -51>>,
      <<-1, 26967, 28255, 7100, 158, -54, -1, 10879, 4932, 24092, 121, -52>>,
      <<-1, 10287, 4939, 31502, 153, -54, -1, 11247, 26915, 2482, 122, -52>>,
      <<-1, 21955, 7943, 22751, 149, -54, -1, 24281, 18151, 21313, 7, -48>>,
      <<-1, 1581, 11409, 5799, 18, -51, -1, 5567, 29441, 15002, 245, -53>>,
      <<-1, 3639, 14949, 4139, 141, -54, -1, 15807, 25438, 1359, 123, -52>>,
      <<-1, 305, 31423, 27067, 136, -54, -1, 24321, 2110, 11295, 123, -52>>,
      <<-1, 1683, 806, 16887, 132, -54, -1, 12229, 9124, 26845, 61, -51>>,
      <<-1, 3777, 23103, 3187, 64, -53, -1, 29709, 1351, 27715, 247, -53>>,
      <<-1, 14601, 26057, 23855, 247, -55, -1, 23827, 8057, 6483, 124, -52>>,
      <<-1, 31691, 19241, 1574, 239, -55, -1, 3559, 1527, 15183, 124, -52>>,
      <<-1, 18055, 28059, 11464, 230, -55, -1, 17287, 8526, 23572, 124, -52>>,
      <<-1, 4811, 5046, 26774, 110, -54, -1, 23853, 4060, 15825, 62, -51>>,
      <<-1, 9615, 13704, 10038, 13, -51, -1, 29697, 28873, 31335, 1, -46>>,
      <<-1, 12835, 26161, 5005, 204, -55, -1, 29199, 7096, 28204, 250, -53>>,
      <<-1, 26151, 15278, 6939, 12, -51, -1, 25307, 27465, 30359, 3, -47>>,
      <<-1, 15907, 17960, 19961, 186, -55, -1, 19531, 32231, 23371, 251, -53>>,
      <<-1, 14793, 32267, 29748, 88, -54, -1, 7191, 6402, 3630, 252, -53>>,
      <<-1, 6655, 10938, 16527, 84, -54, -1, 18289, 9415, 16027, 252, -53>>,
      <<-1, 5337, 13268, 1547, 40, -53, -1, 30999, 18967, 6948, 63, -51>>,
      <<-1, 23929, 27351, 11692, 151, -55, -1, 27335, 19525, 9732, 63, -51>>,
      <<-1, 7727, 11547, 16818, 142, -55, -1, 5241, 21089, 16666, 253, -53>>,
      <<-1, 8891, 7899, 21588, 133, -55, -1, 6695, 18806, 14826, 63, -51>>,
      <<-1, 12647, 19535, 26024, 124, -55, -1, 4003, 4817, 17136, 63, -51>>,
      <<-1, 27927, 2526, 27531, 231, -56, -1, 27735, 26774, 11612, 254, -53>>,
      <<-1, 22453, 13944, 2434, 214, -56, -1, 26565, 10736, 19582, 254, -53>>,
      <<-1, 27977, 18705, 9571, 196, -56, -1, 19411, 8401, 13458, 127, -52>>,
      <<-1, 16525, 14530, 8109, 89, -55, -1, 2769, 13336, 16807, 127, -52>>,
      <<-1, 12753, 19598, 2802, 20, -53, -1, 12375, 11814, 19838, 127, -52>>,
      <<-1, 10375, 28010, 14110, 71, -55, -1, 32759, 25313, 12333, 255, -53>>,
      <<-1, 8935, 8981, 1796, 250, -57, -1, 2853, 25479, 24944, 127, -52>>,
      <<-1, 25787, 18671, 6030, 107, -56, -1, 26141, 23077, 21271, 255, -53>>,
      <<-1, 19911, 2258, 21791, 178, -57, -1, 17911, 29620, 24783, 255, -53>>,
      <<-1, 30475, 25851, 24152, 35, -55, -1, 1383, 29054, 27657, 255, -53>>,
      <<-1, 19255, 1825, 14469, 214, -58, -1, 17013, 14206, 29893, 255, -53>>,
      <<-1, 23649, 22291, 31788, 142, -58, -1, 22469, 6133, 32129, 127, -52>>,
      <<-1, 19423, 2346, 31967, 142, -59, -1, 18893, 19251, 32448, 255, -53>>,
      <<-1, 26691, 27825, 25282, 61, -102, -1, 1, 0, 0, 0, 0>>,
      <<1, 18929, 2346, 31967, 142, -59, -1, 18893, 19251, 32448, 255, -53>>,
      <<1, 28341, 11145, 15894, 71, -57, -1, 22469, 6133, 32129, 127, -52>>,
      <<1, 17193, 2588, 11490, 3, -52, -1, 17013, 14206, 29893, 255, -53>>,
      <<1, 23473, 5103, 31075, 142, -57, -1, 1383, 29054, 27657, 255, -53>>,
      <<1, 21395, 25140, 21831, 44, -55, -1, 17911, 29620, 24783, 255, -53>>,
      <<1, 25725, 18671, 6030, 107, -56, -1, 26141, 23077, 21271, 255, -53>>,
      <<1, 8811, 8981, 1796, 250, -57, -1, 5707, 18190, 17121, 255, -53>>,
      <<1, 9493, 28077, 30435, 8, -52, -1, 32763, 29040, 22550, 127, -52>>,
      <<1, 18213, 12857, 11210, 80, -55, -1, 24751, 23628, 6908, 255, -53>>,
      <<1, 8247, 23649, 20438, 44, -54, -1, 2769, 13336, 16807, 127, -52>>,
      <<1, 15171, 29252, 2392, 49, -54, -1, 19411, 8401, 13458, 127, -52>>,
      <<1, 22391, 13944, 2434, 214, -56, -1, 13283, 5368, 9791, 127, -52>>,
      <<1, 27865, 2526, 27531, 231, -56, -1, 28043, 19730, 26027, 31, -50>>,
      <<1, 25233, 6302, 19281, 249, -56, -1, 4003, 4817, 17136, 63, -51>>,
      <<1, 26807, 1974, 13589, 33, -53, -1, 26779, 9688, 26538, 253, -53>>,
      <<1, 7697, 11547, 16818, 142, -55, -1, 19005, 10544, 24717, 126, -52>>,
      <<1, 23899, 27351, 11692, 151, -55, -1, 11037, 12567, 6162, 253, -53>>,
      <<1, 21381, 20304, 6189, 160, -55, -1, 25691, 10335, 27794, 252, -53>>,
      <<1, 20895, 31403, 9224, 5, -50, -1, 25529, 21091, 8013, 126, -52>>,
      <<1, 29555, 31766, 26729, 177, -55, -1, 9091, 25376, 16837, 31, -50>>,
      <<1, 3985, 12682, 21374, 46, -53, -1, 26149, 32499, 28069, 125, -52>>,
      <<1, 25169, 15084, 12727, 195, -55, -1, 23393, 26936, 21242, 125, -52>>,
      <<1, 12805, 26161, 5005, 204, -55, -1, 18209, 25019, 22242, 15, -49>>,
      <<1, 11369, 11330, 14771, 106, -54, -1, 129, 25844, 13296, 250, -53>>,
      <<1, 17583, 17645, 23077, 27, -52, -1, 14939, 8121, 31650, 124, -52>>,
      <<1, 18025, 28059, 11464, 230, -55, -1, 26737, 17449, 19330, 15, -49>>,
      <<1, 31661, 19241, 1574, 239, -55, -1, 29117, 28862, 18281, 15, -49>>,
      <<1, 14633, 26057, 23855, 247, -55, -1, 28297, 20412, 3241, 62, -51>>,
      <<1, 7539, 13438, 6375, 128, -54, -1, 29711, 1351, 27715, 247, -53>>,
      <<1, 16801, 24777, 4221, 33, -52, -1, 24459, 18248, 20922, 123, -52>>,
      <<1, 321, 31423, 27067, 136, -54, -1, 8031, 3976, 15788, 0, -44>>,
      <<1, 3625, 14949, 4139, 141, -54, -1, 15607, 8077, 30229, 1, -46>>,
      <<1, 12633, 25736, 13626, 145, -54, -1, 5569, 29441, 15002, 245, -53>>,
      <<1, 27369, 20355, 27759, 74, -53, -1, 28047, 28283, 13336, 122, -52>>,
      <<1, 11585, 14490, 26584, 4, -49, -1, 22497, 21062, 4965, 244, -53>>,
      <<1, 32041, 19915, 25463, 19, -51, -1, 21761, 9864, 15416, 243, -53>>,
      <<1, 887, 1553, 5038, 10, -50, -1, 18471, 13128, 25259, 242, -53>>,
      <<1, 1647, 15616, 6851, 5, -49, -1, 23141, 11262, 864, 121, -52>>,
      <<1, 28333, 14578, 23831, 42, -52, -1, 6133, 26576, 17731, 7, -48>>,
      <<1, 3047, 26900, 3745, 175, -54, -1, 5775, 16978, 9196, 120, -52>>,
      <<1, 30865, 14420, 21400, 89, -53, -1, 8315, 26873, 25823, 239, -53>>,
      <<1, 27037, 8142, 24320, 91, -53, -1, 23555, 3839, 16328, 119, -52>>,
      <<1, 26145, 12789, 23856, 11, -50, -1, 23149, 2081, 17915, 59, -51>>,
      <<1, 19269, 28389, 29467, 95, -53, -1, 26027, 31127, 22266, 118, -52>>,
      <<1, 10595, 19805, 30602, 195, -54, -1, 18083, 20274, 8407, 118, -52>>,
      <<1, 32721, 8856, 890, 100, -53, -1, 18023, 21253, 23857, 14, -49>>,
      <<1, 16717, 13349, 17037, 25, -51, -1, 14611, 24190, 12572, 117, -52>>,
      <<1, 6867, 16908, 8164, 208, -54, -1, 32661, 24062, 28430, 233, -53>>,
      <<1, 10957, 3466, 10582, 212, -54, -1, 21183, 12994, 31132, 232, -53>>,
      <<1, 26129, 15259, 3117, 54, -52, -1, 22379, 24667, 484, 232, -53>>,
      <<1, 21627, 21677, 13817, 220, -54, -1, 8925, 2244, 17397, 115, -52>>,
      <<1, 369, 27999, 3653, 56, -52, -1, 14539, 30380, 2990, 230, -53>>,
      <<1, 21415, 20845, 18240, 28, -51, -1, 14077, 17865, 3381, 229, -53>>,
      <<1, 7105, 2769, 1815, 29, -51, -1, 11371, 14970, 3200, 228, -53>>,
      <<1, 22327, 7272, 13608, 236, -54, -1, 22385, 5612, 2450, 227, -53>>,
      <<1, 10295, 29732, 6052, 120, -53, -1, 4997, 20333, 566, 113, -52>>,
      <<1, 5085, 26004, 5001, 122, -53, -1, 17865, 4289, 16010, 112, -52>>,
      <<1, 8429, 23519, 7291, 248, -54, -1, 7395, 30675, 31172, 111, -52>>,
      <<1, 5043, 7067, 1980, 126, -53, -1, 6129, 6175, 23028, 55, -51>>,
      <<1, 32767, 32767, 32767, 15, -50, -1, 19631, 20656, 23019, 221, -53>>,
      <<1, 13847, 12184, 30468, 129, -53, -1, 16553, 27173, 25757, 13, -49>>,
      <<1, 24337, 16891, 27844, 131, -53, -1, 27359, 15597, 14248, 219, -53>>,
      <<1, 5963, 26869, 28829, 66, -52, -1, 1349, 3402, 9040, 218, -53>>,
      <<1, 23853, 32089, 21604, 135, -53, -1, 27217, 24934, 9013, 54, -51>>,
      <<1, 6745, 25984, 17979, 137, -53, -1, 17041, 7519, 29760, 215, -53>>,
      <<1, 30487, 12000, 14011, 139, -53, -1, 12255, 20828, 22926, 214, -53>>,
      <<1, 29163, 24661, 10615, 35, -51, -1, 1637, 20940, 24162, 106, -52>>,
      <<1, 32393, 1041, 18897, 71, -52, -1, 28325, 6993, 7655, 212, -53>>,
      <<1, 12135, 32543, 2047, 9, -49, -1, 5109, 17658, 31991, 210, -53>>,
      <<1, 18813, 28920, 27379, 146, -53, -1, 25041, 11402, 13950, 52, -51>>,
      <<1, 573, 15070, 21625, 148, -53, -1, 6793, 31952, 6775, 104, -52>>,
      <<1, 23131, 2282, 15500, 150, -53, -1, 31317, 7063, 18159, 103, -52>>,
      <<1, 13201, 19456, 4499, 76, -52, -1, 1167, 3009, 25800, 205, -53>>,
      <<1, 14295, 25877, 8456, 19, -50, -1, 31251, 7492, 14768, 204, -53>>,
      <<1, 8829, 20453, 15740, 19, -50, -1, 18725, 17835, 25382, 50, -51>>,
      <<1, 18739, 25467, 19966, 157, -53, -1, 12779, 21492, 28356, 100, -52>>,
      <<1, 31249, 8552, 11919, 159, -53, -1, 14633, 17128, 5696, 100, -52>>,
      <<1, 7855, 16932, 9060, 40, -51, -1, 9001, 27179, 31108, 198, -53>>,
      <<1, 20191, 27762, 27394, 162, -53, -1, 17009, 627, 22675, 24, -50>>,
      <<1, 24753, 29987, 4662, 5, -48, -1, 10267, 8911, 1759, 98, -52>>,
      <<1, 30583, 17920, 4238, 83, -52, -1, 28435, 18555, 21755, 194, -53>>,
      <<1, 1277, 28711, 16283, 10, -49, -1, 3613, 13473, 19753, 96, -52>>,
      <<1, 22099, 27440, 20667, 169, -53, -1, 7067, 31164, 24007, 191, -53>>,
      <<1, 3033, 11716, 9746, 171, -53, -1, 16065, 20583, 8030, 190, -53>>,
      <<1, 10281, 11635, 7791, 43, -51, -1, 20103, 18539, 24346, 188, -53>>,
      <<1, 7205, 29465, 19384, 174, -53, -1, 3377, 30770, 13215, 23, -50>>,
      <<1, 399, 11477, 3584, 88, -52, -1, 22219, 8246, 22801, 185, -53>>,
      <<1, 29455, 25024, 27280, 177, -53, -1, 9885, 26277, 2473, 92, -52>>,
      <<1, 13165, 2024, 14181, 179, -53, -1, 12107, 13886, 19402, 182, -53>>,
      <<1, 15311, 19710, 633, 181, -53, -1, 7653, 26239, 16700, 90, -52>>,
      <<1, 12101, 13886, 19402, 182, -53, -1, 13171, 2024, 14181, 179, -53>>,
      <<1, 21325, 29522, 1236, 46, -51, -1, 29461, 25024, 27280, 177, -53>>,
      <<1, 22225, 8246, 22801, 185, -53, -1, 793, 22954, 7168, 176, -53>>,
      <<1, 13505, 24776, 20095, 93, -52, -1, 7211, 29465, 19384, 174, -53>>,
      <<1, 26433, 9269, 12173, 94, -52, -1, 20565, 23270, 15582, 86, -52>>,
      <<1, 28591, 21529, 18391, 47, -51, -1, 3039, 11716, 9746, 171, -53>>,
      <<1, 28893, 8141, 32494, 5, -48, -1, 11047, 30104, 26717, 84, -52>>,
      <<1, 7221, 26946, 6738, 193, -53, -1, 20439, 624, 31166, 167, -53>>,
      <<1, 30599, 25661, 10877, 97, -52, -1, 15293, 8960, 18503, 41, -51>>,
      <<1, 20539, 17822, 3518, 196, -53, -1, 2829, 21052, 9070, 82, -52>>,
      <<1, 2497, 2510, 25164, 98, -52, -1, 20197, 27762, 27394, 162, -53>>,
      <<1, 26825, 6794, 24161, 49, -51, -1, 31427, 2192, 3474, 161, -53>>,
      <<1, 29271, 1488, 11393, 200, -53, -1, 31243, 8552, 11919, 159, -53>>,
      <<1, 25553, 10216, 23945, 201, -53, -1, 18745, 25467, 19966, 157, -53>>,
      <<1, 9359, 5806, 3226, 203, -53, -1, 2551, 16277, 30194, 77, -52>>,
      <<1, 20291, 936, 18230, 25, -50, -1, 24409, 5205, 1059, 77, -52>>,
      <<1, 16965, 1504, 29284, 102, -52, -1, 26409, 6144, 8999, 152, -53>>,
      <<1, 29861, 14127, 3550, 207, -53, -1, 23137, 2282, 15500, 150, -53>>,
      <<1, 6791, 31952, 6775, 104, -52, -1, 579, 15070, 21625, 148, -53>>,
      <<1, 12521, 5701, 6975, 26, -50, -1, 18807, 28920, 27379, 146, -53>>,
      <<1, 20799, 15439, 6095, 13, -49, -1, 31547, 30970, 16383, 72, -52>>,
      <<1, 18293, 7386, 20719, 6, -48, -1, 32025, 2083, 5026, 143, -53>>,
      <<1, 3279, 9112, 15557, 213, -53, -1, 18341, 343, 9695, 141, -53>>,
      <<1, 12251, 20828, 22926, 214, -53, -1, 15247, 22384, 23389, 69, -52>>,
      <<1, 28835, 1879, 32016, 53, -51, -1, 211, 28460, 9777, 4, -48>>,
      <<1, 13609, 28851, 4506, 27, -50, -1, 23847, 32089, 21604, 135, -53>>,
      <<1, 5141, 8245, 13453, 3, -47, -1, 11933, 20970, 24891, 133, -53>>,
      <<1, 27355, 15597, 14248, 219, -53, -1, 15331, 18495, 15768, 16, -50>>,
      <<1, 677, 10390, 4727, 55, -51, -1, 13841, 12184, 30468, 129, -53>>,
      <<1, 19627, 20656, 23019, 221, -53, -1, 32767, 32767, 32767, 127, -53>>,
      <<1, 31103, 8577, 15775, 3, -47, -1, 10101, 14134, 3960, 252, -54>>,
      <<1, 7393, 30675, 31172, 111, -52, -1, 26687, 30455, 1822, 62, -52>>,
      <<1, 17867, 4289, 16010, 112, -52, -1, 10157, 19240, 10003, 244, -54>>,
      <<1, 4995, 20333, 566, 113, -52, -1, 20605, 26696, 12105, 240, -54>>,
      <<1, 22381, 5612, 2450, 227, -53, -1, 22341, 7272, 13608, 236, -54>>,
      <<1, 5687, 7485, 1600, 114, -52, -1, 28413, 11076, 7260, 116, -53>>,
      <<1, 14073, 17865, 3381, 229, -53, -1, 7495, 2925, 14853, 228, -54>>,
      <<1, 14535, 30380, 2990, 230, -53, -1, 1491, 13692, 14615, 224, -54>>,
      <<1, 17853, 4488, 2026, 231, -53, -1, 21613, 21677, 13817, 220, -54>>,
      <<1, 22375, 24667, 484, 232, -53, -1, 6227, 28271, 12469, 216, -54>>,
      <<1, 21679, 3248, 7783, 58, -51, -1, 19127, 17250, 2645, 53, -52>>,
      <<1, 32657, 24062, 28430, 233, -53, -1, 6883, 16908, 8164, 208, -54>>,
      <<1, 29225, 15612, 25145, 234, -53, -1, 2649, 8492, 5227, 204, -54>>,
      <<1, 26221, 12376, 21274, 235, -53, -1, 32689, 17713, 1780, 200, -54>>,
      <<1, 3395, 7781, 16815, 236, -53, -1, 21689, 9902, 31685, 97, -53>>,
      <<1, 19289, 29487, 11765, 237, -53, -1, 26015, 30578, 31117, 47, -52>>,
      <<1, 27057, 8326, 6124, 238, -53, -1, 25119, 8028, 21254, 187, -54>>,
      <<1, 14339, 7679, 32656, 238, -53, -1, 21321, 16285, 15872, 183, -54>>,
      <<1, 20543, 29820, 29295, 119, -52, -1, 15429, 7210, 27084, 44, -52>>,
      <<1, 11547, 1188, 18393, 240, -53, -1, 3063, 26900, 3745, 175, -54>>,
      <<1, 32413, 31237, 10361, 241, -53, -1, 28337, 14578, 23831, 42, -52>>,
      <<1, 11571, 5631, 16816, 60, -51, -1, 19921, 8193, 22639, 166, -54>>,
      <<1, 4617, 27858, 22698, 60, -51, -1, 4207, 24770, 8821, 1, -47>>,
      <<1, 10879, 4932, 24092, 121, -52, -1, 32043, 19915, 25463, 19, -51>>,
      <<1, 11247, 26915, 2482, 122, -52, -1, 23171, 28980, 20400, 9, -50>>,
      <<1, 24281, 18151, 21313, 7, -48, -1, 30065, 26561, 13879, 37, -52>>,
      <<1, 5567, 29441, 15002, 245, -53, -1, 12649, 25736, 13626, 145, -54>>,
      <<1, 15807, 25438, 1359, 123, -52, -1, 3641, 14949, 4139, 141, -54>>,
      <<1, 24321, 2110, 11295, 123, -52, -1, 16537, 32095, 13533, 68, -53>>,
      <<1, 12229, 9124, 26845, 61, -51, -1, 16805, 24777, 4221, 33, -52>>,
      <<1, 29709, 1351, 27715, 247, -53, -1, 7555, 13438, 6375, 128, -54>>,
      <<1, 23827, 8057, 6483, 124, -52, -1, 14603, 26057, 23855, 247, -55>>,
      <<1, 3559, 1527, 15183, 124, -52, -1, 31693, 19241, 1574, 239, -55>>,
      <<1, 17287, 8526, 23572, 124, -52, -1, 18057, 28059, 11464, 230, -55>>,
      <<1, 29879, 16242, 30532, 249, -53, -1, 4781, 5046, 26774, 110, -54>>,
      <<1, 29697, 28873, 31335, 1, -46, -1, 11385, 11330, 14771, 106, -54>>,
      <<1, 14599, 3548, 14102, 125, -52, -1, 12837, 26161, 5005, 204, -55>>,
      <<1, 25307, 27465, 30359, 3, -47, -1, 12601, 23926, 22747, 97, -54>>,
      <<1, 19531, 32231, 23371, 251, -53, -1, 15909, 17960, 19961, 186, -55>>,
      <<1, 7191, 6402, 3630, 252, -53, -1, 23781, 16133, 14874, 44, -53>>,
      <<1, 15479, 23116, 25577, 15, -49, -1, 11917, 9173, 5408, 0, -45>>,
      <<1, 30999, 18967, 6948, 63, -51, -1, 21351, 20304, 6189, 160, -55>>,
      <<1, 27335, 19525, 9732, 63, -51, -1, 30559, 6837, 27499, 37, -53>>,
      <<1, 5241, 21089, 16666, 253, -53, -1, 20249, 5773, 8409, 71, -54>>,
      <<1, 6695, 18806, 14826, 63, -51, -1, 8893, 7899, 21588, 133, -55>>,
      <<1, 16011, 19268, 3008, 254, -53, -1, 25299, 6302, 19281, 249, -56>>,
      <<1, 27735, 26774, 11612, 254, -53, -1, 27931, 2526, 27531, 231, -56>>,
      <<1, 26565, 10736, 19582, 254, -53, -1, 22457, 13944, 2434, 214, -56>>,
      <<1, 19411, 8401, 13458, 127, -52, -1, 27981, 18705, 9571, 196, -56>>,
      <<1, 2769, 13336, 16807, 127, -52, -1, 16527, 14530, 8109, 89, -55>>,
      <<1, 12375, 11814, 19838, 127, -52, -1, 25507, 6428, 5605, 40, -54>>,
      <<1, 32759, 25313, 12333, 255, -53, -1, 10377, 28010, 14110, 71, -55>>,
      <<1, 2853, 25479, 24944, 127, -52, -1, 10799, 8753, 20592, 15, -53>>,
      <<1, 26141, 23077, 21271, 255, -53, -1, 18815, 4575, 12061, 214, -57>>,
      <<1, 17911, 29620, 24783, 255, -53, -1, 5341, 30861, 5457, 11, -53>>,
      <<1, 1383, 29054, 27657, 255, -53, -1, 23605, 5103, 31075, 142, -57>>,
      <<1, 17013, 14206, 29893, 255, -53, -1, 19273, 1825, 14469, 214, -58>>,
      <<1, 22469, 6133, 32129, 127, -52, -1, 28217, 11145, 15894, 71, -57>>,
      <<1, 18893, 19251, 32448, 255, -53, -1, 9729, 17557, 15983, 71, -58>>,
      <<1, 1, 0, 0, 0, 0, -1, 23559, 26152, 6296, 141, -103>>>>

\* The double of limbs j + 1 .. j + 4 of a row, with the sign and exponent beside them.
TableNum(row, j) ==
    IF Trim(SubSeq(row, j + 1, j + 4)) = <<>> THEN Zero
    ELSE [t |-> "num", s |-> row[j], m |-> Trim(SubSeq(row, j + 1, j + 4)), e |-> row[j + 5]]

\* The heading is one of the table: a multiple of half a degree, at most two
\* full turns to either side.
InTable(angle) ==
    LET d == NumMul(angle, Num(2))
    IN  \/ d.m = <<>>
        \/ /\ d.e >= 0
           /\ BitLen(d.m) + d.e <= LimbBits
           /\ BigToInt(BigShl(d.m, d.e)) <= 2 * MaxHeading

\* (cos, sin) from the row of |angle|.  On this build the functions are
\* symmetric: cos(-r) == cos(r) and sin(-r) == -sin(r) for every heading of
\* the table.
CosSinOf(row, sign) ==
    [cos |-> TableNum(row, 1),
     sin |-> IF sign = 1 THEN TableNum(row, 7) ELSE NumNeg(TableNum(row, 7))]

\* (cos, sin) of the heading.  Headings outside the table have no value here;
\* no run below reaches one.
CosSin(angle) ==
    CASE InTable(angle) ->
        CosSinOf(CosSinTable[NumInt(NumMul(angle, Num(2 * NumMul(angle, Num(2)).s))) + 1],
                 NumMul(angle, Num(2)).s)

LineSegment(color, from, to) == [prim |-> "line", color |-> color, a |-> from, b |-> to]
CircleOutline(color, pos, r) == [prim |-> "circle", color |-> color, a |-> pos, b |-> r]
RectOutline(color, topleft, size) == [prim |-> "rect", color |-> color, a |-> topleft, b |-> size]
PolygonOutline(color, pos, size) == [prim |-> "polygon", color |-> color, a |-> pos, b |-> size]

\* Mutant: Backward moves the way Forward does.
MovedUnsigned(cur, direction, dx, dy) ==
    IF direction \in {"Forward", "Backward"}
    THEN [cur EXCEPT !.x = NumAdd(@, dx), !.y = NumAdd(@, dy)]
    ELSE cur

\* The cursor after the assignments of move_cursor, dx and dy being
\* distance * math.cos(angle_rad) and distance * math.sin(angle_rad).
Moved(cur, direction, dx, dy) ==
    IF direction = "Forward" THEN [cur EXCEPT !.x = NumAdd(@, dx), !.y = NumAdd(@, dy)]
    ELSE IF direction = "Backward" THEN [cur EXCEPT !.x = NumSub(@, dx), !.y = NumSub(@, dy)]
    ELSE cur

\* The line from the old position to the new one, and the new cursor.
LineTo(cur, new) ==
    [err |-> "none", cursor |-> new,
     prims |-> <<LineSegment(cur.color, <<cur.x, cur.y>>, <<new.x, new.y>>)>>]

MoveAlong(distance, direction, cur, cs) ==
    LineTo(cur, Moved(cur, direction, NumMul(distance, cs.cos), NumMul(distance, cs.sin)))

\* move_cursor: [err, cursor, prims].
move_cursor(distance, direction, cur) ==
    IF direction \in {"Forward", "Backward"} /\ ~IsNum(distance)
    THEN [err |-> "TypeError", cursor |-> cur, prims |-> <<>>]
    ELSE MoveAlong(distance, direction, cur, CosSin(cur.angle))

\* a // b on integers, b > 0: floor division.
FloorDiv(a, b) == IF a >= 0 THEN a \div b ELSE -((-a + b - 1) \div b)

\* draw_shape(shape, size, x, y): [err, prims]; given is FALSE when x and y are None.
draw_shape(shape, size, given, x, y, cur) ==
    IF given /\ ~(IsNum(x) /\ IsNum(y)) THEN [err |-> "TypeError", prims |-> <<>>]
    ELSE LET pos == <<IF given THEN NumInt(x) ELSE NumInt(cur.x),
                      IF given THEN NumInt(y) ELSE NumInt(cur.y)>>
         IN  IF shape \in {"Circle", "Square", "Star"} /\ ~IsNum(size)
             THEN [err |-> "TypeError", prims |-> <<>>]
             ELSE IF shape = "Circle"
             THEN [err |-> "none", prims |-> <<CircleOutline(cur.color, pos, NumInt(size))>>]
             ELSE IF shape = "Square"
             THEN [err |-> "none",
                   prims |-> <<RectOutline(cur.color,
                                  <<pos[1] - FloorDiv(NumInt(size), 2),
                                    pos[2] - FloorDiv(NumInt(size), 2)>>,
                                  NumInt(size))>>]
             ELSE IF shape = "Star"
             THEN [err |-> "none", prims |-> <<PolygonOutline(cur.color, pos, size)>>]
             ELSE [err |-> "none", prims |-> <<>>]

-----------------------------------------------------------------------------
(* Statement interpreter: what one statement at tokens[i] does, as a value. *)
(* Every outcome carries err: "none" and the statement's effect, or the     *)
(* exception raised, in which case nothing else of the outcome is read.     *)

Throw(e) == [err |-> e]

\* SET var = <expression>: [err, symbols, i]
StmtSET(toks, i, env) ==
    IF i + 2 >= Len(toks) THEN Throw("IndexError")
    ELSE IF At(toks, i + 2) # "=" THEN Throw("Expected '=' in SET statement")
    ELSE Try(parse_expression(toks, i + 3, COMMAND_KEYWORDS),
             LAMBDA p : Try(eval_expr(p.node, env),
                 LAMBDA v : [err |-> "none",
                             symbols |-> Bind(AfterEval(p.node, env), At(toks, i + 1), v.v),
                             i |-> p.i]))

\* The index of the first ")" at or after j, or -1: the scan `while tokens[j] != ")"`.
RECURSIVE FindClose(_, _)
FindClose(toks, j) ==
    IF j >= Len(toks) THEN -1
    ELSE IF At(toks, j) = ")" THEN j ELSE FindClose(toks, j + 1)

\* The tokens of s other than ",", in order.
RECURSIVE NoCommas(_)
NoCommas(s) ==
    IF s = <<>> THEN <<>>
    ELSE IF Head(s) = "," THEN NoCommas(Tail(s)) ELSE <<Head(s)>> \o NoCommas(Tail(s))

\* The rest of DEFINE once j, the index of ")" (or -1), is known.
DefineAt(toks, i, j, env) ==
    IF j < 0 \/ j + 1 >= Len(toks) THEN Throw("IndexError")
    ELSE IF At(toks, j + 1) # "{" THEN Throw("Expected { to start function body")
    ELSE [err |-> "none",
          symbols |-> Bind(env, At(toks, i + 1),
                           FuncDef(NoCommas(Slice(toks, i + 3, j)), BlockBody(toks, j + 2))),
          i |-> find_block_end(toks, j + 2)]

\* DEFINE func ( params ) { body }: [err, symbols, i]
StmtDEFINE(toks, i, env) ==
    IF i + 2 >= Len(toks) THEN Throw("IndexError")
    ELSE IF At(toks, i + 2) # "(" THEN Throw("Expected ( after function name in DEFINE")
    ELSE DefineAt(toks, i, FindClose(toks, i + 3), env)

\* The argument scan of CALL from index j: [err, args, j], args the parsed expressions.
RECURSIVE call_args_loop(_, _, _, _)
call_args_loop(toks, j, args, arg_tokens) ==
    IF j >= Len(toks) THEN Throw("IndexError")
    ELSE IF At(toks, j) = ")"
    THEN IF arg_tokens # <<>>
         THEN Try(parse_full_expression(arg_tokens),
                  LAMBDA p : [err |-> "none", args |-> Append(args, p.node), j |-> j])
         ELSE [err |-> "none", args |-> args, j |-> j]
    ELSE IF At(toks, j) = ","
    THEN IF arg_tokens # <<>>
         THEN Try(parse_full_expression(arg_tokens),
                  LAMBDA p : call_args_loop(toks, j + 1, Append(args, p.node), <<>>))
         ELSE call_args_loop(toks, j + 1, args, arg_tokens)
    ELSE call_args_loop(toks, j + 1, args, Append(arg_tokens, At(toks, j)))

\* Mutant: the parameters are bound into symbols one by one, so that a later
\* argument sees the earlier parameters.
ArgEnvSequential(env, local_scope) == Overlay(env, local_scope)

\* The environment an argument expression is evaluated in: symbols, which the
\* binding loop does not touch (it fills local_scope).
ArgEnv(env, local_scope) == env

\* for param, arg_expr in zip(params, args): local_scope[param] = eval_expr(arg_expr)
RECURSIVE bind_args(_, _, _, _, _)
bind_args(params, args, k, env, local_scope) ==
    IF k > Len(params) \/ k > Len(args) THEN [err |-> "none", scope |-> local_scope]
    ELSE Try(eval_expr(args[k], ArgEnv(env, local_scope)),
             LAMBDA v : bind_args(params, args, k + 1, env, Bind(local_scope, params[k], v.v)))

\* Mutant: only too many arguments are refused.
ArityAtMost(args, params) == Len(args) <= Len(params)

\* The arity test of CALL.
ArityOk(args, params) == Len(args) = Len(params)

\* Mutant: the snapshot is taken after the parameters are bound.
SnapshotAfterBinding(env, scope) == Overlay(env, scope)

\* The snapshot CALL pushes: a copy of symbols taken before the parameters are bound.
Snapshot(env, scope) == env

\* Mutant: a missing name is an empty function, as a missing variable is 0.
LookupFuncDefault(env, name) ==
    IF name \in DOMAIN env THEN [found |-> TRUE, func |-> env[name]]
    ELSE [found |-> TRUE, func |-> FuncDef(<<>>, <<>>)]

\* func = symbols.get(func_name); found is `func is not None`.
LookupFunc(env, name) ==
    IF name \in DOMAIN env THEN [found |-> TRUE, func |-> env[name]]
    ELSE [found |-> FALSE, func |-> <<>>]

\* The rest of CALL once the arguments a = [args, j] are parsed and func looked up.
CallWith(a, f, env, stack) ==
    IF ~f.found THEN Throw("Undefined function")
    ELSE IF f.func.t # "fn" THEN Throw("TypeError")
    ELSE IF ~ArityOk(a.args, f.func.params) THEN Throw("Function expects other arguments")
    ELSE Try(bind_args(f.func.params, a.args, 1, env, EmptyEnv),
             LAMBDA b : [err |-> "none",
                         symbols |-> Overlay(env, b.scope),
                         call_stack |-> Append(stack, Snapshot(env, b.scope)),
                         body |-> f.func.body,
                         ret |-> a.j + 1])

\* CALL func ( args ) up to the start of the body:
\* [err, symbols, call_stack, body, ret], ret the index after ")".
StmtCALL(toks, i, env, stack) ==
    IF i + 2 >= Len(toks) THEN Throw("IndexError")
    ELSE IF At(toks, i + 2) # "(" THEN Throw("Expected ( in function call")
    ELSE Try(call_args_loop(toks, i + 3, <<>>, <<>>),
             LAMBDA a : CallWith(a, LookupFunc(env, At(toks, i + 1)), env, stack))

\* symbols.clear(); symbols.update(call_stack.pop()): [symbols, call_stack]
\* Mutant: the snapshot on top is read and left on the stack.
RestoreKeeping(env, stack) == [symbols |-> Last(stack), call_stack |-> stack]

Restore(env, stack) == [symbols |-> Last(stack), call_stack |-> Front(stack)]

\* The header of IF and WHILE: [err, cond, block_start, block_end]
BlockHeader(toks, i) ==
    Try(parse_condition(toks, i + 1),
        LAMBDA c : IF c.i >= Len(toks) THEN Throw("IndexError")
                   ELSE IF At(toks, c.i) # "{" THEN Throw("Expected { after condition")
                   ELSE [err |-> "none", cond |-> c.node, block_start |-> c.i + 1,
                         block_end |-> find_block_end(toks, c.i + 1)])

\* MOVE <expression> Forward|Backward: [err, cursor, prims, i]
StmtMOVE(toks, i, env, cur) ==
    Try(parse_expression(toks, i + 1, {"Forward", "Backward"}),
        LAMBDA p : Try(eval_expr(p.node, env),
            LAMBDA distance :
                IF p.i >= Len(toks) THEN Throw("IndexError")
                ELSE Try(move_cursor(distance.v, At(toks, p.i), cur),
                         LAMBDA m : [err |-> "none", cursor |-> m.cursor, prims |-> m.prims,
                                     i |-> p.i + 1])))

\* Mutant: the heading is kept within one turn of 360 degrees.
TurnedNormalized(cur, angle_val, direction) ==
    LET a == IF direction = "Right" THEN NumAdd(cur.angle, angle_val)
             ELSE IF direction = "Left" THEN NumSub(cur.angle, angle_val)
             ELSE cur.angle
    IN  [cur EXCEPT !.angle = IF NumLess(a, Num(360)) THEN a ELSE NumSub(a, Num(360))]

\* The heading after TURN by angle_val.
Turned(cur, angle_val, direction) ==
    IF direction = "Right" THEN [cur EXCEPT !.angle = NumAdd(@, angle_val)]
    ELSE IF direction = "Left" THEN [cur EXCEPT !.angle = NumSub(@, angle_val)]
    ELSE cur

\* TURN <expression> Right|Left: [err, cursor, i]
StmtTURN(toks, i, env, cur) ==
    Try(parse_expression(toks, i + 1, {"Right", "Left"}),
        LAMBDA p : Try(eval_expr(p.node, env),
            LAMBDA angle_val :
                IF p.i >= Len(toks) THEN Throw("IndexError")
                ELSE IF At(toks, p.i) \in {"Right", "Left"} /\ ~IsNum(angle_val.v)
                THEN Throw("TypeError")
                ELSE [err |-> "none", cursor |-> Turned(cur, angle_val.v, At(toks, p.i)),
                      i |-> p.i + 1]))

DrawStops == {"AT", "SET", "DEFINE", "CALL", "IF", "WHILE", "MOVE", "TURN", "DRAW", "COLOR", "}"}

\* DRAW ... AT <x> , <y>, from the index after AT: [err, prims, i]
DrawAt(toks, i, shape, size, env, cur) ==
    Try(parse_expression(toks, i, {","}),
        LAMBDA px : Try(eval_expr(px.node, env),
            LAMBDA x_val :
                IF px.i >= Len(toks) THEN Throw("IndexError")
                ELSE Try(parse_expression(toks,
                                          IF At(toks, px.i) = "," THEN px.i + 1 ELSE px.i,
                                          COMMAND_KEYWORDS),
                         LAMBDA py : Try(eval_expr(py.node, env),
                             LAMBDA y_val :
                                 Try(draw_shape(shape, size, TRUE, x_val.v, y_val.v, cur),
                                     LAMBDA d : [err |-> "none", prims |-> d.prims,
                                                 i |-> py.i])))))

\* DRAW <shape> <expression> [AT <x> , <y>]: [err, prims, i]
StmtDRAW(toks, i, env, cur) ==
    IF i + 1 >= Len(toks) THEN Throw("IndexError")
    ELSE Try(parse_expression(toks, i + 2, DrawStops),
             LAMBDA p : Try(eval_expr(p.node, env),
                 LAMBDA size :
                     IF p.i < Len(toks) /\ At(toks, p.i) = "AT"
                     THEN DrawAt(toks, p.i + 1, At(toks, i + 1), size.v, env, cur)
                     ELSE Try(draw_shape(At(toks, i + 1), size.v, FALSE, Num(0), Num(0), cur),
                              LAMBDA d : [err |-> "none", prims |-> d.prims, i |-> p.i])))

\* Mutant: COLOR builds the cursor anew around the color.
ColoredAfresh(cur, c) == [InitCursor EXCEPT !.color = c]

\* cursor["color"] = c
Colored(cur, c) == [cur EXCEPT !.color = c]

\* Mutant: a closing brace with no block open is rejected.
StmtSKIPStrict(toks, i) ==
    IF At(toks, i) = "}" THEN Throw("Unexpected }") ELSE [err |-> "none", i |-> i + 1]

\* Any other token: [err, i]
StmtSKIP(toks, i) == [err |-> "none", i |-> i + 1]

\* COLOR <color>: the colors the statement may set, or {} for an IndexError.
StmtCOLOR(toks, i) ==
    IF i + 1 >= Len(toks) THEN {}
    ELSE LET color == At(toks, i + 1) IN
         IF color = "Random" THEN {COLORS[c] : c \in DOMAIN COLORS}
         ELSE IF color \in DOMAIN COLORS THEN {COLORS[color]}
         ELSE {White}

-----------------------------------------------------------------------------
(* The run of interpret(tokens) as steps.  A frame is one active invocation *)
(* of interpret: its token slice, its index, what entered it (the program,  *)
(* an IF body, a WHILE body, a function body), the WHILE's condition, the   *)
(* index its caller resumes at, and the environment at the moment of entry. *)

Frame(toks, kind, cond, ret, env) ==
    [toks |-> toks, i |-> 0, kind |-> kind, cond |-> cond, ret |-> ret, caller_env |-> env]

Top == Last(frames)

Advance(i) == [frames EXCEPT ![Len(frames)].i = i]

\* The invocation on top returns and its caller resumes at the index it kept.
PopTo(ret) == [Front(frames) EXCEPT ![Len(frames) - 1].i = ret]

NoLast == [op |-> "none", toks |-> <<>>, i |-> 0, depth |-> 0, entry |-> EmptyEnv,
           symbols |-> EmptyEnv, call_stack |-> <<>>, cursor |-> InitCursor, screen |-> <<>>]

NoCount == [calls |-> 0, iters |-> 0, stmts |-> 0, runs |-> 0]

\* No pure function is under study, none has been applied.
NoArg == [start |-> 0, stop |-> {}, env |-> EmptyEnv, code |-> <<>>]
NoRes == [done |-> FALSE]

History(op, calls, iters) ==
    /\ last' = [op |-> op, toks |-> Top.toks, i |-> Top.i, depth |-> Len(frames),
                entry |-> Top.caller_env, symbols |-> symbols, call_stack |-> call_stack, cursor |-> cursor,
                screen |-> screen]
    /\ count' = [calls |-> count.calls + calls, iters |-> count.iters + iters,
                 stmts |-> count.stmts + 1, runs |-> count.runs]

\* Mutant: an exception is caught where it is raised and the run goes on.
RunningAfterError ==
    /\ current_state = "running"
    /\ frames # <<>>
    /\ count.stmts < MaxSteps

\* interpret is active and the next step of it can be taken: the actions of Step
\* cover every token at tokens[i] and the end of every kind of frame.
Running ==
    /\ current_state = "running"
    /\ frames # <<>>
    /\ error = "none"
    /\ count.stmts < MaxSteps

Keywords == {"SET", "DEFINE", "CALL", "IF", "WHILE", "MOVE", "TURN", "DRAW", "COLOR"}

AtStmt(kw) == Running /\ Top.i < Len(Top.toks) /\ At(Top.toks, Top.i) = kw
AtEnd(kind) == Running /\ Top.i >= Len(Top.toks) /\ Top.kind = kind

\* An exception leaves interpret and, uncaught, ends the application.
Abort(e) ==
    /\ error' = e
    /\ UNCHANGED <<current_state, tokens, frames, symbols, call_stack, cursor, screen, arg, res>>

DoSET ==
    /\ AtStmt("SET")
    /\ History("SET", 0, 0)
    /\ LET o == StmtSET(Top.toks, Top.i, symbols) IN
       IF o.err # "none" THEN Abort(o.err)
       ELSE /\ symbols' = o.symbols
            /\ frames' = Advance(o.i)
            /\ UNCHANGED <<current_state, tokens, call_stack, cursor, screen, error, arg, res>>

DoDEFINE ==
    /\ AtStmt("DEFINE")
    /\ History("DEFINE", 0, 0)
    /\ LET o == StmtDEFINE(Top.toks, Top.i, symbols) IN
       IF o.err # "none" THEN Abort(o.err)
       ELSE /\ symbols' = o.symbols
            /\ frames' = Advance(o.i)
            /\ UNCHANGED <<current_state, tokens, call_stack, cursor, screen, error, arg, res>>

DoCALL ==
    /\ AtStmt("CALL")
    /\ LET o == StmtCALL(Top.toks, Top.i, symbols, call_stack) IN
       IF o.err # "none" THEN History("CALL", 0, 0) /\ Abort(o.err)
       ELSE /\ History("CALL", 1, 0)
            /\ symbols' = o.symbols
            /\ call_stack' = o.call_stack
            /\ frames' = Append(frames, Frame(o.body, "call", <<>>, o.ret, symbols))
            /\ UNCHANGED <<current_state, tokens, cursor, screen, error, arg, res>>

\* interpret(func["body"]) has returned: restore, then i = j + 1.
DoRETURN ==
    /\ AtEnd("call")
    /\ History("RETURN", 0, 0)
    /\ LET r == Restore(symbols, call_stack) IN
       /\ symbols' = r.symbols
       /\ call_stack' = r.call_stack
    /\ frames' = PopTo(Top.ret)
    /\ UNCHANGED <<current_state, tokens, cursor, screen, error, arg, res>>

DoIF ==
    /\ AtStmt("IF")
    /\ History("IF", 0, 0)
    /\ LET h == BlockHeader(Top.toks, Top.i) IN
       IF h.err # "none" THEN Abort(h.err)
       ELSE LET c == eval_condition(h.cond, symbols) IN
            IF c.err # "none" THEN Abort(c.err)
            ELSE /\ frames' = IF c.v
                              THEN Append(frames,
                                       Frame(BlockBody(Top.toks, h.block_start),
                                             "if", <<>>, h.block_end, symbols))
                              ELSE Advance(h.block_end)
                 /\ UNCHANGED <<current_state, tokens, symbols, call_stack, cursor, screen,
                                error, arg, res>>

\* The body of an IF has been interpreted: i = block_end.
DoENDIF ==
    /\ AtEnd("if")
    /\ History("ENDIF", 0, 0)
    /\ frames' = PopTo(Top.ret)
    /\ UNCHANGED <<current_state, tokens, symbols, call_stack, cursor, screen, error, arg, res>>

\* The first evaluation of a WHILE's condition.
DoWHILE ==
    /\ AtStmt("WHILE")
    /\ LET h == BlockHeader(Top.toks, Top.i) IN
       IF h.err # "none" THEN History("WHILE", 0, 0) /\ Abort(h.err)
       ELSE LET c == eval_condition(h.cond, symbols) IN
            IF c.err # "none" THEN History("WHILE", 0, 0) /\ Abort(c.err)
            ELSE /\ History("WHILE", 0, IF c.v THEN 1 ELSE 0)
                 /\ frames' = IF c.v
                              THEN Append(frames,
                                       Frame(BlockBody(Top.toks, h.block_start),
                                             "while", h.cond, h.block_end, symbols))
                              ELSE Advance(h.block_end)
                 /\ UNCHANGED <<current_state, tokens, symbols, call_stack, cursor, screen,
                                error, arg, res>>

\* Mutant: the condition is evaluated once, against the environment at entry.
LoopConditionAtEntry(frame, env) == eval_condition(frame.cond, frame.caller_env)

\* `while eval_condition(cond)`: the parsed condition against the current symbols.
LoopCondition(frame, env) == eval_condition(frame.cond, env)

\* The body of a WHILE has been interpreted: the condition is evaluated again.
DoLOOP ==
    /\ AtEnd("while")
    /\ LET c == LoopCondition(Top, symbols) IN
       IF c.err # "none" THEN History("LOOP", 0, 0) /\ Abort(c.err)
       ELSE /\ History("LOOP", 0, IF c.v THEN 1 ELSE 0)
            /\ frames' = IF c.v THEN Advance(0) ELSE PopTo(Top.ret)
            /\ UNCHANGED <<current_state, tokens, symbols, call_stack, cursor, screen,
                           error, arg, res>>

DoMOVE ==
    /\ AtStmt("MOVE")
    /\ History("MOVE", 0, 0)
    /\ LET o == StmtMOVE(Top.toks, Top.i, symbols, cursor) IN
       IF o.err # "none" THEN Abort(o.err)
       ELSE /\ cursor' = o.cursor
            /\ screen' = screen \o o.prims
            /\ frames' = Advance(o.i)
            /\ UNCHANGED <<current_state, tokens, symbols, call_stack, error, arg, res>>

DoTURN ==
    /\ AtStmt("TURN")
    /\ History("TURN", 0, 0)
    /\ LET o == StmtTURN(Top.toks, Top.i, symbols, cursor) IN
       IF o.err # "none" THEN Abort(o.err)
       ELSE /\ cursor' = o.cursor
            /\ frames' = Advance(o.i)
            /\ UNCHANGED <<current_state, tokens, symbols, call_stack, screen, error, arg, res>>

DoDRAW ==
    /\ AtStmt("DRAW")
    /\ History("DRAW", 0, 0)
    /\ LET o == StmtDRAW(Top.toks, Top.i, symbols, cursor) IN
       IF o.err # "none" THEN Abort(o.err)
       ELSE /\ screen' = screen \o o.prims
            /\ frames' = Advance(o.i)
            /\ UNCHANGED <<current_state, tokens, symbols, call_stack, cursor, error, arg, res>>

DoCOLOR ==
    /\ AtStmt("COLOR")
    /\ History("COLOR", 0, 0)
    /\ LET colors == StmtCOLOR(Top.toks, Top.i) IN
       IF colors = {} THEN Abort("IndexError")
       ELSE /\ \E c \in colors : cursor' = Colored(cursor, c)
            /\ frames' = Advance(Top.i + 2)
            /\ UNCHANGED <<current_state, tokens, symbols, call_stack, screen, error, arg, res>>

\* A token that starts no statement: i += 1.
DoSKIP ==
    /\ Running
    /\ Top.i < Len(Top.toks)
    /\ At(Top.toks, Top.i) \notin Keywords
    /\ History("SKIP", 0, 0)
    /\ LET o == StmtSKIP(Top.toks, Top.i) IN
       IF o.err # "none" THEN Abort(o.err)
       ELSE /\ frames' = Advance(o.i)
            /\ UNCHANGED <<current_state, tokens, symbols, call_stack, cursor, screen, error,
                           arg, res>>

\* interpret(tokens) of the ENTER handler returns.
DoFINISH ==
    /\ AtEnd("top")
    /\ History("FINISH", 0, 0)
    /\ frames' = <<>>
    /\ UNCHANGED <<current_state, tokens, symbols, call_stack, cursor, screen, error, arg, res>>

Step ==
    \/ DoSET \/ DoDEFINE \/ DoCALL \/ DoRETURN \/ DoIF \/ DoENDIF \/ DoWHILE \/ DoLOOP
    \/ DoMOVE \/ DoTURN \/ DoDRAW \/ DoCOLOR \/ DoSKIP \/ DoFINISH

-----------------------------------------------------------------------------
(* Programs: the token sequences typed in input mode.                       *)

NumTok(k) ==
    CASE k = 0 -> "0" [] k = 1 -> "1" [] k = 2 -> "2" [] k = 3 -> "3" [] k = 4 -> "4"
      [] k = 5 -> "5" [] k = 6 -> "6" [] k = 7 -> "7" [] k = 8 -> "8" [] k = 9 -> "9"
      [] k = 10 -> "10"

RecDef ==
    <<"DEFINE", "rec", "(", "n", ")", "{",
        "IF", "n", ">", "0", "{", "CALL", "rec", "(", "n", "-", "1", ")", "}",
      "}">>

RecProg(n) == RecDef \o <<"CALL", "rec", "(", NumTok(n), ")">>

WhileProg(n) ==
    <<"SET", "i", "=", "0",
      "WHILE", "i", "<", NumTok(n), "{", "SET", "i", "=", "i", "+", "1", "}",
      "SET", "after", "=", "i">>

\* SET x = 1  SET y = 2  DEFINE h ( y ) { SET q = x + y }
\* DEFINE f ( <params> ) { <body> }  CALL f ( <args> )  SET z = x
CallPrefix ==
    <<"SET", "x", "=", "1", "SET", "y", "=", "2",
      "DEFINE", "h", "(", "y", ")", "{", "SET", "q", "=", "x", "+", "y", "}">>

CallProg(params, body, args) ==
    CallPrefix \o <<"DEFINE", "f", "(">> \o params \o <<")", "{">> \o body
        \o <<"}", "CALL", "f", "(">> \o args \o <<")", "SET", "z", "=", "x">>

ParamLists ==
    { <<>>, <<"x">>, <<"p">>, <<"x", ",", "y">>, <<"y", ",", "x">>, <<"x", ",", "x">>,
      <<"p", "q">> }

Bodies ==
    { <<>>,
      <<"SET", "x", "=", "99">>,
      <<"SET", "w", "=", "x", "+", "y">>,
      <<"SET", "x", "=", "x", "+", "1", "SET", "v", "=", "x">>,
      <<"DEFINE", "g", "(", ")", "{", "}", "SET", "f", "=", "0">>,
      <<"SET", "y", "=", "7", "CALL", "h", "(", "x", ")">>,
      <<"MOVE", "x", "Forward">>,
      <<"IF", "x", ">", "y", "{", "SET", "r", "=", "x", "-", "y", "}">> }

ArgLists ==
    { <<>>, <<"5">>, <<"u">>, <<"y", ",", "x">>, <<"x", "+", "1", ",", "y">>,
      <<"5", ",", "6", ",", "7">> }

CallPrograms == { CallProg(ps, b, as) : ps \in ParamLists, b \in Bodies, as \in ArgLists }

OtherPrograms ==
    { \* the examples of the documentation
      <<"SET", "x", "=", "1", "DEFINE", "f", "(", "x", ")", "{", "SET", "x", "=", "99", "}",
        "CALL", "f", "(", "5", ")">>,
      <<"SET", "a", "=", "1", "SET", "b", "=", "2",
        "DEFINE", "f", "(", "a", ",", "b", ")", "{", "SET", "p", "=", "a", "SET", "q", "=", "b", "}",
        "CALL", "f", "(", "b", ",", "a", ")">>,
      \* calls of names that are not functions
      <<"CALL", "f", "(", ")", "DEFINE", "f", "(", ")", "{", "}">>,
      <<"SET", "x", "=", "1", "MOVE", "10", "Forward", "CALL", "g", "(", "x", ")",
        "DEFINE", "g", "(", "n", ")", "{", "}">>,
      <<"DEFINE", "f", "(", ")", "{", "CALL", "g", "(", ")", "}", "CALL", "f", "(", ")">>,
      <<"SET", "f", "=", "1", "CALL", "f", "(", ")">>,
      <<"CALL", "f", "(", "+", ")">>,
      <<"CALL", "f">>,
      \* nested blocks
      <<"IF", "1", ">", "0", "{", "WHILE", "i", "<", "2", "{", "SET", "i", "=", "i", "+", "1", "}",
        "SET", "a", "=", "i", "}", "SET", "b", "=", "2">>,
      <<"IF", "0", ">", "1", "{", "IF", "1", ">", "0", "{", "SET", "a", "=", "1", "}", "}",
        "SET", "b", "=", "2">>,
      <<"WHILE", "i", "!=", "2", "{", "IF", "i", "=", "1", "{", "SET", "a", "=", "5", "}",
        "SET", "i", "=", "i", "+", "1", "}">>,
      \* cursor commands
      <<"MOVE", "100", "Forward", "TURN", "90", "Right", "MOVE", "50", "Backward">>,
      <<"COLOR", "Red", "DRAW", "Circle", "10", "DRAW", "Square", "15", "AT", "100", ",", "100",
        "DRAW", "Star", "5", "DRAW", "Blob", "5">>,
      <<"COLOR", "Random", "MOVE", "10", "Forward", "COLOR", "Pink", "TURN", "200", "Right",
        "TURN", "200", "Right">>,
      <<"SET", "x", "=", "3", "MOVE", "50", "Forward", "TURN", "90", "Right",
        "DRAW", "Circle", "x", "AT", "1", ",", "2", "DRAW", "Square", "20", "COLOR", "Blue",
        "MOVE", "x", "Backward", "DRAW", "Star", "u">>,
      \* stray tokens and malformed statements
      <<"}", "x", "SET", "a", "=", "1", ")">>,
      <<"MOVE", "10", "Forward", "DEFINE", "f", "(", ")", "{", "x", "}", "5", "+", "}",
        "CALL", "f", "(", ")", ")", "Forward">>,
      <<"SET", "x", "1">>,
      <<"SET", "x", "=", "2", "/", "0", "SET", "y", "=", "x", "*", "(", "3", "+", "u", ")">>,
      <<"DEFINE", "f", "(", ")", "{", "}", "SET", "x", "=", "f", "SET", "y", "=", "f", "+", "1">>,
      <<"WHILE", "1", "{", "}">>,
      <<"DEFINE", "f", "(", "x", ")", "{", "SET", "a", "=", "1">>,
      <<"COLOR">> }

TurnAmounts == {"90", "200", "0.5"}
TurnDirections == {"Right", "Left"}

\* k statements TURN <amount> Right|Left
TurnSeqs(k) ==
    { [j \in 1 .. 3 * k |-> CASE (j - 1) % 3 = 0 -> "TURN"
                              [] (j - 1) % 3 = 1 -> as[(j - 1) \div 3 + 1]
                              [] (j - 1) % 3 = 2 -> ds[(j - 1) \div 3 + 1]] :
        as \in [1 .. k -> TurnAmounts], ds \in [1 .. k -> TurnDirections] }

TurnPrograms == UNION {TurnSeqs(k) : k \in 1 .. MaxTurns}

MoveDistances == {"100", "50", "0.5"}
MoveDirections == {"Forward", "Backward"}

\* k statements MOVE <distance> Forward|Backward
MoveSeqs(k) ==
    { [j \in 1 .. 3 * k |-> CASE (j - 1) % 3 = 0 -> "MOVE"
                              [] (j - 1) % 3 = 1 -> ds[(j - 1) \div 3 + 1]
                              [] (j - 1) % 3 = 2 -> ws[(j - 1) \div 3 + 1]] :
        ds \in [1 .. k -> MoveDistances], ws \in [1 .. k -> MoveDirections] }

\* MOVE statements in the initial color and in another one.
MovePrograms ==
    UNION { {p, <<"COLOR", "Red">> \o p} : p \in UNION {MoveSeqs(k) : k \in 1 .. MaxMoves} }

\* Hard errors below IF, WHILE and CALL, with statements before and after.
NestedUndefined ==
    <<"MOVE", "10", "Forward",
      "IF", "1", ">", "0", "{",
         "DEFINE", "f", "(", ")", "{", "DRAW", "Circle", "5", "CALL", "g", "(", ")",
                                       "MOVE", "5", "Forward", "}",
         "WHILE", "i", "<", "2", "{", "CALL", "f", "(", ")", "SET", "i", "=", "i", "+", "1", "}",
         "MOVE", "1", "Forward", "}",
      "MOVE", "2", "Forward">>

NestedArity ==
    <<"DEFINE", "h", "(", "a", ")", "{", "}",
      "DEFINE", "f", "(", ")", "{",
         "WHILE", "i", "<", "1", "{", "MOVE", "10", "Forward", "CALL", "h", "(", ")",
                                      "SET", "i", "=", "1", "}",
         "DRAW", "Circle", "5", "}",
      "CALL", "f", "(", ")", "MOVE", "2", "Forward">>

NestedSyntax ==
    <<"DEFINE", "f", "(", "n", ")", "{",
         "IF", "n", ">", "0", "{", "DRAW", "Square", "4", "SET", "x", "1",
                                   "MOVE", "1", "Forward", "}",
         "SET", "y", "=", "2", "}",
      "CALL", "f", "(", "1", ")", "SET", "z", "=", "3">>

ErrorPrograms == {NestedUndefined, NestedArity, NestedSyntax}

\* A function name where a number is expected.
FunctionPlusOne == <<"DEFINE", "f", "(", ")", "{", "}", "SET", "x", "=", "f", "+", "1">>
FunctionAsDistance == <<"DEFINE", "f", "(", ")", "{", "}", "MOVE", "f", "Forward">>

FunctionValuePrograms == {FunctionPlusOne, FunctionAsDistance}

\* SET g = 10  DEFINE h ( b ) { SET z = a + b + v + g }
\* DEFINE f ( a ) { SET v = a + 1  SET w = v * 2  CALL h ( w )  SET r = z }  CALL f ( 5 )
ScopeProg ==
    <<"SET", "g", "=", "10",
      "DEFINE", "h", "(", "b", ")", "{", "SET", "z", "=", "a", "+", "b", "+", "v", "+", "g", "}",
      "DEFINE", "f", "(", "a", ")", "{", "SET", "v", "=", "a", "+", "1",
                                         "SET", "w", "=", "v", "*", "2",
                                         "CALL", "h", "(", "w", ")",
                                         "SET", "r", "=", "z", "}",
      "CALL", "f", "(", "5", ")">>

\* Blocks whose closing brace is missing: a statement that opens a block,
\* followed by tokens in which that brace is never closed.
UnclosedPrograms ==
    LET heads == {<<"IF", "1", ">", "0", "{">>,
                  <<"IF", "0", ">", "1", "{">>,
                  <<"WHILE", "i", "<", "1", "{", "SET", "i", "=", "i", "+", "1">>,
                  <<"DEFINE", "f", "(", "x", ")", "{">>}
        tails == {<<>>,
                  <<"x">>,
                  <<"SET", "a", "=", "1">>,
                  <<"SET", "a", "=", "1", "x">>,
                  <<"IF", "1", ">", "0", "{", "SET", "a", "=", "1", "}">>,
                  <<"IF", "1", ">", "0", "{", "SET", "a", "=", "1", "}", "x">>}
    IN  {<<"SET", "i", "=", "0">> \o head \o tail : head \in heads, tail \in tails}

\* Arithmetic whose float result is not the exact one, and moves along
\* headings whose cosine or sine is not a whole number.
RoundingPrograms ==
    { <<"SET", "a", "=", "2", "/", "10", "*", "3", "SET", "b", "=", "3", "/", "5",
        "IF", "a", "=", "b", "{", "SET", "r", "=", "1", "}">>,
      <<"SET", "a", "=", "1", "/", "10", "*", "3",
        "IF", "a", ">", "3", "/", "10", "{", "SET", "r", "=", "1", "}">>,
      <<"SET", "a", "=", "(", "3", "/", "10", ")", "/", "3", "SET", "b", "=", "1", "/", "10",
        "IF", "a", "<", "b", "{", "SET", "r", "=", "1", "}">>,
      <<"TURN", "180", "Right", "TURN", "90", "Right", "MOVE", "200", "Forward",
        "DRAW", "Circle", "5">>,
      <<"TURN", "90", "Right", "MOVE", "100", "*", "5", "Backward", "DRAW", "Circle", "5">>,
      <<"SET", "i", "=", "0",
        "WHILE", "i", "<", "4", "{", "MOVE", "100", "Forward", "TURN", "90", "Left",
                                    "SET", "i", "=", "i", "+", "1", "}",
        "DRAW", "Square", "9">> }
        \cup { <<"TURN", a, d, "MOVE", "100", w, "DRAW", "Circle", "5", "MOVE", "0.5", w,
                "DRAW", "Square", "5">> :
                  a \in {"90", "180", "200", "0.5"}, d \in {"Right", "Left"},
                  w \in {"Forward", "Backward"} }

Programs ==
    {RecProg(n) : n \in 0 .. MaxN} \cup {WhileProg(n) : n \in 0 .. MaxN}
        \cup CallPrograms \cup OtherPrograms \cup TurnPrograms \cup MovePrograms
        \cup ErrorPrograms \cup FunctionValuePrograms \cup {ScopeProg}
        \cup UnclosedPrograms \cup RoundingPrograms

-----------------------------------------------------------------------------
(* The application: syntax help -> code entry -> run.                       *)

STATE_SYNTAX == "syntax"
STATE_INPUT == "input"
STATE_RUNNING == "running"

Init ==
    /\ current_state = STATE_SYNTAX
    /\ tokens = <<>>
    /\ frames = <<>>
    /\ symbols = EmptyEnv
    /\ call_stack = <<>>
    /\ cursor = InitCursor
    /\ screen = <<>>
    /\ error = "none"
    /\ last = NoLast
    /\ count = NoCount
    /\ arg = NoArg
    /\ res = NoRes

\* SPACE in syntax mode.
KeySpace ==
    /\ current_state = STATE_SYNTAX
    /\ error = "none"
    /\ current_state' = STATE_INPUT
    /\ UNCHANGED <<tokens, frames, symbols, call_stack, cursor, screen, error, last, count,
                   arg, res>>

\* ENTER in input mode: the screen is cleared, the text is tokenized and
\* interpret(tokens) starts; the handler ends when the interpretation has.
KeyReturn ==
    /\ current_state = STATE_INPUT
    /\ error = "none"
    /\ current_state' = STATE_RUNNING
    /\ \E code \in Programs :
          /\ tokens' = code
          /\ frames' = <<Frame(code, "top", <<>>, 0, symbols)>>
    /\ screen' = <<>>
    /\ last' = NoLast
    /\ count' = [NoCount EXCEPT !.runs = count.runs]
    /\ UNCHANGED <<symbols, call_stack, cursor, error, arg, res>>

\* Mutant: R puts the cursor back and keeps the environment and the call stack.
RestartCursorOnly(cur, env, stack) ==
    [cursor |-> InitCursor, symbols |-> env, call_stack |-> stack]

\* cursor = {...}; symbols.clear(); call_stack.clear()
Restart(cur, env, stack) ==
    [cursor |-> InitCursor, symbols |-> EmptyEnv, call_stack |-> <<>>]

\* R in running mode, once the ENTER handler has returned.  The handler does
\* not touch the surface: what the run drew stays until the surface is filled.
KeyR ==
    /\ current_state = STATE_RUNNING
    /\ frames = <<>>
    /\ error = "none"
    /\ count.runs < MaxRuns
    /\ current_state' = STATE_SYNTAX
    /\ LET r == Restart(cursor, symbols, call_stack) IN
           /\ cursor' = r.cursor
           /\ symbols' = r.symbols
           /\ call_stack' = r.call_stack
    /\ last' = NoLast
    /\ count' = [NoCount EXCEPT !.runs = count.runs + 1]
    /\ UNCHANGED <<tokens, frames, screen, error, arg, res>>

\* The rendering at the end of a pass of the main loop, after the events of
\* the pass have been handled (an ENTER handler returns only when interpret
\* has): in syntax and in input mode the surface is filled, in running mode
\* it is left as it is.  screen holds what move_cursor and draw_shape have
\* drawn; the texts of the three modes and the caret of the editor are not
\* part of it.
Render ==
    /\ frames = <<>>
    /\ error = "none"
    /\ screen' = IF current_state \in {STATE_SYNTAX, STATE_INPUT} THEN <<>> ELSE screen
    /\ UNCHANGED <<current_state, tokens, frames, symbols, call_stack, cursor, error, last,
                   count, arg, res>>

Next == KeySpace \/ KeyReturn \/ KeyR \/ Render \/ Step

Spec == Init /\ [][Next]_vars

-----------------------------------------------------------------------------
(* Properties of the interpreter, checked under Spec.                       *)

\* interpret(tokens) of the ENTER handler has returned normally.
Finished == current_state = STATE_RUNNING /\ frames = <<>> /\ error = "none"

\* The last step executed the statement `op` and raised nothing.
Did(op) == last.op = op /\ error = "none"

\* The state the run was in before the last step is the state it is in now.
StateAsBefore ==
    /\ symbols = last.symbols
    /\ call_stack = last.call_stack
    /\ cursor = last.cursor
    /\ screen = last.screen
    /\ Len(frames) = last.depth
    /\ Top.toks = last.toks
    /\ Top.i = last.i

ExampleRestore ==
    <<"SET", "x", "=", "1", "DEFINE", "f", "(", "x", ")", "{", "SET", "x", "=", "99", "}",
      "CALL", "f", "(", "5", ")">>

\* C1: when a CALL returns, the environment is, name for name, the environment
\* immediately before that CALL, whatever the parameters shadowed and whatever
\* the body SET or DEFINEd; after SET x = 1, DEFINE f ( x ) { SET x = 99 },
\* CALL f ( 5 ) the environment has x = 1.
CallRestoresEnvironment ==
    /\ Did("RETURN") => symbols = last.entry
    /\ (tokens = ExampleRestore /\ Finished) =>
           /\ symbols["x"] = Num(1)
           /\ DOMAIN symbols = {"x", "f"}

\* A call has returned from a body that had overwritten the shadowed x.
CallRestoresEnvironmentWitness ==
    /\ tokens = ExampleRestore
    /\ Did("RETURN")
    /\ last.symbols["x"] = Num(99)
    /\ symbols["x"] = Num(1)

\* The function a CALL statement at last.toks[last.i] named, and its parsed arguments.
LastCallee == last.symbols[At(last.toks, last.i + 1)]
LastArgs == call_args_loop(last.toks, last.i + 3, <<>>, <<>>)

ExampleSwap ==
    <<"SET", "a", "=", "1", "SET", "b", "=", "2",
      "DEFINE", "f", "(", "a", ",", "b", ")", "{", "SET", "p", "=", "a", "SET", "q", "=", "b", "}",
      "CALL", "f", "(", "b", ",", "a", ")">>

\* C2: the body of a CALL starts with every parameter bound to the value its
\* argument has in the caller's environment as it was before any parameter was
\* bound (of a parameter named twice, the last argument); with a = 1, b = 2,
\* DEFINE f ( a , b ), CALL f ( b , a ) runs the body with a = 2 and b = 1.
ArgumentsSeeCallerEnvironment ==
    /\ Did("CALL") =>
           \A k \in 1 .. Len(LastCallee.params) :
               (\A m \in k + 1 .. Len(LastCallee.params) :
                    LastCallee.params[m] # LastCallee.params[k])
               => symbols[LastCallee.params[k]] = eval_expr(LastArgs.args[k], last.symbols).v
    /\ (tokens = ExampleSwap /\ Did("CALL")) =>
           symbols["a"] = Num(2) /\ symbols["b"] = Num(1)

\* The swapping call has entered its body.
ArgumentsSeeCallerEnvironmentWitness ==
    /\ tokens = ExampleSwap
    /\ Did("CALL")
    /\ last.symbols["a"] = Num(1) /\ last.symbols["b"] = Num(2)
    /\ symbols["a"] = Num(2) /\ symbols["b"] = Num(1)

\* The last step was a well-formed CALL of a function with another number of
\* parameters than the call has arguments.
ArityMismatch ==
    /\ last.op = "CALL"
    /\ last.i + 2 < Len(last.toks)
    /\ At(last.toks, last.i + 2) = "("
    /\ LastArgs.err = "none"
    /\ At(last.toks, last.i + 1) \in DOMAIN last.symbols
    /\ LastCallee.t = "fn"
    /\ Len(LastArgs.args) # Len(LastCallee.params)

\* C3: a CALL whose number of arguments differs from the callee's number of
\* parameters raises an error and halts the run before the body runs: nothing
\* is emitted, and environment, call stack and cursor are as before the CALL.
ArityMismatchHalts ==
    ArityMismatch =>
        /\ error = "Function expects other arguments"
        /\ StateAsBefore
        /\ ~Running

\* f ( x , y ), whose body draws, has been called with one argument.
ArityMismatchHaltsWitness ==
    /\ tokens = CallProg(<<"x", ",", "y">>, <<"MOVE", "x", "Forward">>, <<"5">>)
    /\ ArityMismatch
    /\ error # "none"

ExampleForward == <<"CALL", "f", "(", ")", "DEFINE", "f", "(", ")", "{", "}">>

\* C4: a CALL of a name with no binding in the environment at that moment is
\* a fatal error that changes neither environment, call stack nor cursor, also
\* when a DEFINE of the name follows later in the program.
UndefinedCallIsFatal ==
    /\ (last.op = "CALL" /\ last.i + 1 < Len(last.toks)
            /\ At(last.toks, last.i + 1) \notin DOMAIN last.symbols) =>
           /\ error # "none"
           /\ StateAsBefore
           /\ ~Running
    /\ (tokens = ExampleForward /\ current_state = STATE_RUNNING /\ last.op # "none") =>
           /\ error = "Undefined function"
           /\ symbols = EmptyEnv

\* The call of f that precedes DEFINE f has failed.
UndefinedCallIsFatalWitness ==
    /\ tokens = ExampleForward
    /\ last.op = "CALL"
    /\ error = "Undefined function"

\* Steps of the run of RecProg(n): DEFINE, n times (CALL, IF, ENDIF, RETURN),
\* then CALL, IF, RETURN, and FINISH.
RecSteps(n) == 4 * n + 5

\* C5: with DEFINE rec ( n ) { IF n > 0 { CALL rec ( n - 1 ) } }, CALL rec ( n )
\* terminates without error after exactly n + 1 invocations of the body, for
\* every n in 0 .. MaxN, with environment and call stack as before the call.
RecursionTerminates ==
    \A n \in 0 .. MaxN :
        (tokens = RecProg(n) /\ current_state = STATE_RUNNING) =>
            /\ error = "none"
            /\ count.calls <= n + 1
            /\ count.stmts <= RecSteps(n)
            /\ frames # <<>> => Running /\ count.stmts < RecSteps(n)
            /\ frames = <<>> =>
                   /\ count.calls = n + 1
                   /\ symbols = Bind(EmptyEnv, "rec", FuncDef(<<"n">>, Slice(RecDef, 6, 19)))
                   /\ call_stack = <<>>

\* CALL rec ( 3 ) has finished after 4 invocations.
RecursionTerminatesWitness ==
    /\ tokens = RecProg(3)
    /\ Finished
    /\ count.calls = 4

\* Steps of the run of WhileProg(n): SET, WHILE, n times (SET, LOOP), SET, FINISH.
WhileSteps(n) == 2 * n + 4

\* C6: SET i = 0, WHILE i < N { SET i = i + 1 } runs the body once per true
\* evaluation of the condition against the current environment, ends with
\* i = N after exactly N executions of the body, and the statement after the
\* closing brace runs only once the loop has ended.
WhileCountsIterations ==
    \A n \in 0 .. MaxN :
        (tokens = WhileProg(n) /\ current_state = STATE_RUNNING) =>
            /\ error = "none"
            /\ count.stmts <= WhileSteps(n)
            /\ frames # <<>> => Running /\ count.stmts < WhileSteps(n)
            /\ "i" \in DOMAIN symbols => symbols["i"] = Num(count.iters) \/ Top.kind = "while"
            /\ count.iters <= n
            /\ last.op \in {"WHILE", "LOOP"} =>
                   (Len(frames) = 2 <=> NumLess(symbols["i"], Num(n)))
            /\ "after" \in DOMAIN symbols =>
                   symbols["after"] = Num(n) /\ symbols["i"] = Num(n) /\ count.iters = n
            /\ frames = <<>> =>
                   /\ DOMAIN symbols = {"i", "after"}
                   /\ symbols["i"] = Num(n)
                   /\ count.iters = n

\* The loop to 5 has ended with i = 5 after 5 executions of the body.
WhileCountsIterationsWitness ==
    /\ tokens = WhileProg(5)
    /\ Finished
    /\ symbols["i"] = Num(5)
    /\ count.iters = 5

-----------------------------------------------------------------------------
(* The block matcher on its own: find_block_end and the body slice that IF, *)
(* WHILE and DEFINE take, applied to every brace sequence up to a length.   *)

SeqsUpTo(S, n) == UNION {[1 .. k -> S] : k \in 0 .. n}

BraceTokens == {"{", "}", "x"}

InitBlock ==
    /\ tokens \in SeqsUpTo(BraceTokens, MaxBlockLen)
    /\ \E start \in 0 .. Len(tokens) : arg = [NoArg EXCEPT !.start = start]
    /\ res = NoRes
    /\ current_state = STATE_SYNTAX
    /\ frames = <<>>
    /\ symbols = EmptyEnv
    /\ call_stack = <<>>
    /\ cursor = InitCursor
    /\ screen = <<>>
    /\ error = "none"
    /\ last = NoLast
    /\ count = NoCount

\* block_end = find_block_end(tokens, block_start); body = tokens[block_start:block_end - 1]
ApplyFindBlockEnd ==
    /\ ~res.done
    /\ res' = [done |-> TRUE,
               block_end |-> find_block_end(tokens, arg.start),
               body |-> BlockBody(tokens, arg.start)]
    /\ UNCHANGED <<current_state, tokens, frames, symbols, call_stack, cursor, screen, error,
                   last, count, arg>>

NextBlock == ApplyFindBlockEnd

SpecBlock == InitBlock /\ [][NextBlock]_vars

\* The braces among s[a], ..., s[b - 1].
Opens(s, a, b) == Cardinality({k \in a .. b - 1 : At(s, k) = "{"})
Closes(s, a, b) == Cardinality({k \in a .. b - 1 : At(s, k) = "}"})

\* s[a:b] is balanced: as many closing as opening braces, and no prefix closes
\* a brace it has not opened.
BalancedSlice(s, a, b) ==
    /\ Opens(s, a, b) = Closes(s, a, b)
    /\ \A k \in a .. b : Opens(s, a, k) >= Closes(s, a, k)

\* The index of the closing brace matching the opening brace at s[open].
MatchOf(s, open) ==
    CHOOSE m \in open + 1 .. Len(s) - 1 :
        At(s, m) = "}" /\ BalancedSlice(s, open + 1, m)

\* C7: for a balanced token sequence and the index just after an opening
\* brace, find_block_end returns the index just after the matching closing
\* brace, at any nesting depth, so that the body is exactly the tokens strictly
\* between the two braces and interpretation resumes just after the match.
BlockEndMatches ==
    (res.done /\ BalancedSlice(tokens, 0, Len(tokens))
         /\ arg.start >= 1 /\ At(tokens, arg.start - 1) = "{") =>
        /\ \E m \in arg.start .. Len(tokens) - 1 :
               At(tokens, m) = "}" /\ BalancedSlice(tokens, arg.start, m)
        /\ res.block_end = MatchOf(tokens, arg.start - 1) + 1
        /\ res.body = Slice(tokens, arg.start, MatchOf(tokens, arg.start - 1))
        /\ BalancedSlice(res.body, 0, Len(res.body))

\* A block holding a nested block, followed by a token: the outer brace is matched.
BlockEndMatchesWitness ==
    /\ tokens = <<"{", "{", "}", "}", "x">>
    /\ arg.start = 1
    /\ res.done
    /\ res.block_end = 4
    /\ res.body = <<"{", "}">>

-----------------------------------------------------------------------------
(* The expression parser and the evaluator on their own: parse_expression   *)
(* from index 0 under a stop set, then eval_expr of the node, applied to    *)
(* token sequences of every shape and to operator chains.                   *)

ExprAlphabet == {"2", "3", "x", "u", "f", "+", "-", "*", "/", "(", ")"}
ChainAtoms == {"0", "2", "3", "10"}
Operators == {"+", "-", "*", "/"}

\* a1 op1 a2 ... op(k-1) ak
Chains(k) ==
    { [j \in 1 .. 2 * k - 1 |-> IF j % 2 = 1 THEN as[(j + 1) \div 2] ELSE os[j \div 2]] :
        as \in [1 .. k -> ChainAtoms], os \in [1 .. k - 1 -> Operators] }

\* ( a op b ) op c and a op ( b op c )
ParenChains ==
    UNION { { <<"(", c[1], c[2], c[3], ")", c[4], c[5]>>,
              <<c[1], c[2], "(", c[3], c[4], c[5], ")">> } : c \in Chains(3) }

ExampleExprs ==
    { <<"2", "+", "3", "*", "4">>,
      <<"(", "2", "+", "3", ")", "*", "4">>,
      <<"10", "-", "3", "-", "2">>,
      <<"5", "/", "0">>,
      <<"1", "+", "5", "/", "0">>,
      <<"f", "/", "0">>,
      <<"(", "f", "+", "1", ")", "/", "0">>,
      <<"(", "(", "2", "+", "3", ")", ")", "*", "(", "x", "-", "u", ")">>,
      <<"8", "/", "(", "2", "-", "2", ")", "+", "x", "*", "u">>,
      <<"2.5", "*", "2", "-", "0.5", "/", "(", "u", "*", "3", ")">>,
      <<"8", "/", "4", "/", "2", "-", "1", "-", "(", "3", "-", "4", ")">> }

ExprInputs ==
    SeqsUpTo(ExprAlphabet, MaxSeqLen) \cup UNION {Chains(k) : k \in 2 .. MaxOperands}
        \cup ParenChains \cup ExampleExprs

ExprEnvs == { EmptyEnv, Bind(Bind(EmptyEnv, "x", Num(7)), "f", FuncDef(<<>>, <<>>)) }

StopSets == { {}, {"-", "x"} }

InitExpr ==
    /\ tokens \in ExprInputs
    /\ symbols \in ExprEnvs
    /\ \E stop \in StopSets : arg = [NoArg EXCEPT !.stop = stop, !.env = symbols]
    /\ res = NoRes
    /\ current_state = STATE_SYNTAX
    /\ frames = <<>>
    /\ call_stack = <<>>
    /\ cursor = InitCursor
    /\ screen = <<>>
    /\ error = "none"
    /\ last = NoLast
    /\ count = NoCount

\* The outcome of eval_expr on a parsed expression p: [done, parse, value, symbols].
Evaluated(p, env) ==
    IF p.err # "none"
    THEN [done |-> TRUE, parse |-> p, value |-> Fail("not parsed"), symbols |-> env]
    ELSE [done |-> TRUE, parse |-> p, value |-> eval_expr(p.node, env),
          symbols |-> AfterEval(p.node, env)]

\* expr, new_i = parse_expression(tokens, 0, stop_tokens); value = eval_expr(expr)
ApplyParseEval ==
    /\ ~res.done
    /\ res' = Evaluated(parse_expression(tokens, 0, arg.stop), symbols)
    /\ symbols' = res'.symbols
    /\ UNCHANGED <<current_state, tokens, frames, call_stack, cursor, screen, error, last,
                   count, arg>>

NextExpr == ApplyParseEval

SpecExpr == InitExpr /\ [][NextExpr]_vars

\* The reference grammar, read off the token sequence without a cursor:
\*   expr := term (('+' | '-') term)*     term := factor (('*' | '/') factor)*
\*   factor := NUMBER | IDENTIFIER | '(' expr ')'
\* An expression splits at its last operator outside parentheses, which is the
\* root of a left-associative chain; + and - are looked for before * and /.

\* The position k of s (from 1) is outside every pair of parentheses.
TopLevel(s, k) ==
    Cardinality({j \in 1 .. k - 1 : s[j] = "("}) = Cardinality({j \in 1 .. k - 1 : s[j] = ")"})

Max(S) == CHOOSE m \in S : \A k \in S : k <= m

NotExpr == [ok |-> FALSE]

\* left op right, the operands evaluated left to right.
RefApply(op, l, r) ==
    IF ~l.ok \/ ~r.ok THEN NotExpr
    ELSE [ok |-> TRUE,
          r |-> IF l.r.err # "none" THEN l.r
                ELSE IF r.r.err # "none" THEN r.r
                ELSE Arith(op, l.r.v, r.r.v)]

RefAtom(tok, env) ==
    IF isdigit(tok) THEN [ok |-> TRUE, r |-> Val(float(tok))]
    ELSE IF isalpha(tok) THEN [ok |-> TRUE, r |-> Val(Lookup(env, tok))]
    ELSE NotExpr

RECURSIVE RefExpr(_, _), RefTerm(_, _), RefFactor(_, _)
RefExpr(s, env) ==
    LET adds == {k \in 1 .. Len(s) : s[k] \in {"+", "-"} /\ TopLevel(s, k)}
    IN  IF adds = {} THEN RefTerm(s, env)
        ELSE RefApply(s[Max(adds)], RefExpr(SubSeq(s, 1, Max(adds) - 1), env),
                      RefTerm(SubSeq(s, Max(adds) + 1, Len(s)), env))

RefTerm(s, env) ==
    LET muls == {k \in 1 .. Len(s) : s[k] \in {"*", "/"} /\ TopLevel(s, k)}
    IN  IF muls = {} THEN RefFactor(s, env)
        ELSE RefApply(s[Max(muls)], RefTerm(SubSeq(s, 1, Max(muls) - 1), env),
                      RefFactor(SubSeq(s, Max(muls) + 1, Len(s)), env))

RefFactor(s, env) ==
    IF Len(s) = 1 THEN RefAtom(s[1], env)
    ELSE IF Len(s) >= 3 /\ s[1] = "(" /\ s[Len(s)] = ")"
         THEN RefExpr(SubSeq(s, 2, Len(s) - 1), env)
    ELSE NotExpr

\* No token of the input is a stop token.
StopFree == \A k \in 1 .. Len(tokens) : tokens[k] \notin arg.stop

\* C8: on a well-formed, stop-token-free expression the parser followed by
\* the evaluator computes the value the reference grammar gives: * and / bind
\* tighter than + and -, operators of equal precedence group to the left, and
\* parentheses override both; the parser consumes the whole expression.
ParserAgreesWithGrammar ==
    /\ (res.done /\ StopFree /\ RefExpr(tokens, arg.env).ok) =>
           /\ res.parse.err = "none"
           /\ res.parse.i = Len(tokens)
           /\ res.value = RefExpr(tokens, arg.env).r
    /\ (res.done /\ arg.stop = {}) =>
           /\ tokens = <<"2", "+", "3", "*", "4">> => res.value = Val(Num(14))
           /\ tokens = <<"(", "2", "+", "3", ")", "*", "4">> => res.value = Val(Num(20))
           /\ tokens = <<"10", "-", "3", "-", "2">> => res.value = Val(Num(5))

\* A chain mixing precedence, left grouping and parentheses has been evaluated.
ParserAgreesWithGrammarWitness ==
    /\ tokens = <<"8", "/", "4", "/", "2", "-", "1", "-", "(", "3", "-", "4", ")">>
    /\ arg.stop = {}
    /\ res.done
    /\ res.value = Val(Num(1))

\* The nodes of an expression tree.
RECURSIVE Subnodes(_)
Subnodes(node) ==
    IF node.k = "bin" THEN {node} \cup Subnodes(node.left) \cup Subnodes(node.right)
    ELSE {node}

\* The division nodes of an expression whose right operand evaluates to 0.
DivisionsByZero(expr, env) ==
    {node \in Subnodes(expr) :
        node.k = "bin" /\ node.op = "/" /\ eval_expr(node.right, env) = Val(Num(0))}

\* C9: a division whose right operand evaluates to 0 yields 0 and never
\* raises, for every left operand and at any nesting depth: 5 / 0 is 0 and
\* 1 + 5 / 0 is 1.
DivisionByZeroIsZero ==
    (res.done /\ res.parse.err = "none") =>
        /\ \A node \in DivisionsByZero(res.parse.node, arg.env) :
               eval_expr(node, arg.env) = Val(Num(0))
        /\ (tokens = <<"5", "/", "0">> /\ arg.stop = {}) => res.value = Val(Num(0))
        /\ (tokens = <<"1", "+", "5", "/", "0">> /\ arg.stop = {}) => res.value = Val(Num(1))

\* What eval_expr does: the left operand is evaluated before the divisor is
\* looked at, so the division yields 0 whenever the left operand has a value,
\* a function value included (f / 0 is 0), and raises what the left operand
\* raises otherwise: ( f + 1 ) / 0 raises TypeError when f is a function.
DivisionByZeroAfterLeftOperand ==
    (res.done /\ res.parse.err = "none") =>
        \A node \in DivisionsByZero(res.parse.node, arg.env) :
            eval_expr(node, arg.env) =
                IF eval_expr(node.left, arg.env).err = "none" THEN Val(Num(0))
                ELSE eval_expr(node.left, arg.env)

\* ( f + 1 ) / 0 has been evaluated with f bound to a function: TypeError.
DivisionByZeroRaises ==
    /\ tokens = <<"(", "f", "+", "1", ")", "/", "0">>
    /\ arg.stop = {}
    /\ "f" \in DOMAIN arg.env
    /\ res.done
    /\ res.value = Fail("TypeError")

\* The names the expression reads that the environment does not bind.
Unbound(node, env) == {n \in NamesOf(node) : n \notin DOMAIN env}

\* env with every name of S bound to 0.
ZeroBound(env, S) == [x \in DOMAIN env \cup S |-> IF x \in DOMAIN env THEN env[x] ELSE Num(0)]

\* C10: a name bound nowhere evaluates as if it were bound to 0, without an
\* error for the name, and the lookup leaves the environment as it was: the
\* name is not added.
UnboundNameIsZero ==
    (res.done /\ res.parse.err = "none") =>
        /\ \A n \in Unbound(res.parse.node, arg.env) :
               eval_expr(Var(n), arg.env) = Val(Num(0))
        /\ res.value = eval_expr(res.parse.node,
                                 ZeroBound(arg.env, Unbound(res.parse.node, arg.env)))
        /\ symbols = arg.env
        /\ \A n \in Unbound(res.parse.node, arg.env) : n \notin DOMAIN symbols

\* u + x has been evaluated where only x is bound: the value is that of x.
UnboundNameIsZeroWitness ==
    /\ tokens = <<"u", "+", "x">>
    /\ arg.stop = {}
    /\ arg.env # EmptyEnv
    /\ res.done
    /\ res.value = Val(Num(7))
    /\ "u" \notin DOMAIN symbols

-----------------------------------------------------------------------------
(* Properties of the cursor commands, checked under Spec.                   *)

\* toks is a sequence of statements TURN <number> Right|Left.
IsTurnProgram(toks) ==
    /\ Len(toks) % 3 = 0
    /\ \A j \in 1 .. Len(toks) :
           CASE (j - 1) % 3 = 0 -> toks[j] = "TURN"
             [] (j - 1) % 3 = 1 -> toks[j] \in TurnAmounts
             [] (j - 1) % 3 = 2 -> toks[j] \in TurnDirections

\* The sum of the amounts of those of the first k statements that turn in the
\* given direction.
RECURSIVE SumOfTurns(_, _, _)
SumOfTurns(toks, k, direction) ==
    IF k = 0 THEN Num(0)
    ELSE NumAdd(SumOfTurns(toks, k - 1, direction),
                IF toks[3 * k] = direction THEN float(toks[3 * k - 1]) ELSE Num(0))

\* The statements of the program that have been executed.
TurnsDone == IF frames = <<>> THEN Len(tokens) \div 3 ELSE Top.i \div 3

\* C11: the heading is additive and never normalized: after any sequence of
\* TURN statements it is the initial heading (0 at the start of a run) plus the
\* Right amounts minus the Left amounts, without a modulo 360; two TURN 200
\* Right from heading 0 give 400.  No other statement changes the heading.
\* (The amounts of the TURN programs and their sums are floats without
\* rounding, so the order of the additions does not show.)
HeadingIsAdditive ==
    /\ (current_state = STATE_RUNNING /\ IsTurnProgram(tokens)) =>
           /\ error = "none"
           /\ cursor.angle = NumSub(NumAdd(InitCursor.angle, SumOfTurns(tokens, TurnsDone, "Right")),
                                    SumOfTurns(tokens, TurnsDone, "Left"))
    /\ (tokens = <<"TURN", "200", "Right", "TURN", "200", "Right">> /\ Finished) =>
           cursor.angle = Num(400)
    /\ (current_state = STATE_RUNNING /\ last.op \notin {"TURN", "none"}) =>
           cursor.angle = last.cursor.angle

\* Three turns past a full circle, to the right and to the left, have been made.
HeadingIsAdditiveWitness ==
    /\ tokens = <<"TURN", "200", "Right", "TURN", "200", "Right", "TURN", "0.5", "Left">>
    /\ Finished
    /\ cursor.angle = Frac(799, 2)

\* The last statement started at last.toks[last.i] and was `kw <number> <word>`.
LastWas(kw, words) ==
    /\ Did(kw)
    /\ last.i + 2 < Len(last.toks)
    /\ isdigit(At(last.toks, last.i + 1))
    /\ At(last.toks, last.i + 2) \in words

LastAmount == float(At(last.toks, last.i + 1))
LastWord == At(last.toks, last.i + 2)

\* C12: at heading 0, MOVE d Forward takes the cursor from (x, y) to
\* (x + d, y) and MOVE d Backward to (x - d, y), and each MOVE emits exactly
\* one line segment from the old to the new position in the current color:
\* from (400, 300), MOVE 100 Forward gives (500, 300) and the segment between.
MoveGeometry ==
    /\ (LastWas("MOVE", MoveDirections) /\ last.cursor.angle = Num(0)) =>
           /\ cursor.x = IF LastWord = "Forward" THEN NumAdd(last.cursor.x, LastAmount)
                         ELSE NumSub(last.cursor.x, LastAmount)
           /\ cursor.y = last.cursor.y
           /\ screen = Append(last.screen,
                              [prim |-> "line", color |-> last.cursor.color,
                               a |-> <<last.cursor.x, last.cursor.y>>,
                               b |-> <<cursor.x, cursor.y>>])
    /\ (tokens = <<"MOVE", "100", "Forward">> /\ Finished) =>
           /\ cursor.x = Num(500) /\ cursor.y = Num(300)
           /\ screen = <<[prim |-> "line", color |-> <<255, 255, 255>>,
                          a |-> <<Num(400), Num(300)>>, b |-> <<Num(500), Num(300)>>]>>

\* A second MOVE, backward and in red, has drawn its segment from (500, 300).
MoveGeometryWitness ==
    /\ tokens = <<"COLOR", "Red", "MOVE", "100", "Forward", "MOVE", "0.5", "Backward">>
    /\ LastWas("MOVE", {"Backward"})
    /\ last.cursor.angle = Num(0)
    /\ cursor.x = Frac(999, 2)
    /\ Len(screen) = 2
    /\ screen[2].color = <<255, 0, 0>>
    /\ screen[2].a = <<Num(500), Num(300)>>

\* C13: the cursor commands change only their own part of the state: MOVE
\* only the cursor's x and y, TURN only its angle, COLOR only its color, DRAW
\* no cursor field at all, with or without AT x , y; none of the four changes
\* the environment or the call stack.
CursorCommandsFrame ==
    /\ Did("MOVE") => cursor = [last.cursor EXCEPT !.x = cursor.x, !.y = cursor.y]
    /\ Did("TURN") => cursor = [last.cursor EXCEPT !.angle = cursor.angle]
    /\ Did("COLOR") => cursor = [last.cursor EXCEPT !.color = cursor.color]
    /\ Did("DRAW") => cursor = last.cursor
    /\ (\E op \in {"MOVE", "TURN", "COLOR", "DRAW"} : Did(op)) =>
           /\ symbols = last.symbols
           /\ call_stack = last.call_stack

\* A COLOR has been executed with the cursor away from its initial position
\* and heading, in an environment that binds a name.
CursorCommandsFrameWitness ==
    /\ Did("COLOR")
    /\ cursor.color = <<0, 0, 255>>
    /\ cursor.x = Num(450)
    /\ cursor.angle = Num(90)
    /\ symbols = last.symbols
    /\ "x" \in DOMAIN symbols

-----------------------------------------------------------------------------
(* Errors. *)

\* C14: a hard error raised at any nesting depth of IF, WHILE or CALL stops
\* the interpretation of the whole program at once: the failing statement
\* emits nothing and changes nothing, the primitives emitted before it remain,
\* and no step is taken at any level once the error is raised.
ErrorStopsEverything ==
    [][/\ error = "none"
       /\ error' # "none" =>
              /\ screen' = screen
              /\ symbols' = symbols /\ call_stack' = call_stack /\ cursor' = cursor
              /\ frames' = frames
       /\ (tokens = NestedUndefined /\ error' # "none") =>
              /\ error' = "Undefined function"
              /\ Len(frames') = 4
              /\ Len(screen') = 2 /\ screen'[1].prim = "line" /\ screen'[2].prim = "circle"
       /\ (tokens = NestedArity /\ error' # "none") =>
              /\ error' = "Function expects other arguments"
              /\ Len(frames') = 3
              /\ Len(screen') = 1
       /\ (tokens = NestedSyntax /\ error' # "none") =>
              /\ error' = "Expected '=' in SET statement"
              /\ Len(frames') = 3
              /\ Len(screen') = 1 /\ "y" \notin DOMAIN symbols'
      ]_vars

\* The call of an undefined function has failed in a function body called from
\* a WHILE body inside an IF body, after two primitives.
ErrorStopsEverythingWitness ==
    /\ tokens = NestedUndefined
    /\ error = "Undefined function"
    /\ Len(frames) = 4
    /\ Len(screen) = 2

\* C15: at statement position a token that is none of SET, DEFINE, CALL, IF,
\* WHILE, MOVE, TURN, DRAW, COLOR (a stray closing brace, an identifier) is
\* skipped: the index advances by exactly one token, no error is raised,
\* nothing is emitted, and environment, call stack and cursor are unchanged.
UnknownTokenIsSkipped ==
    (/\ last.op # "none"
     /\ last.i < Len(last.toks)
     /\ At(last.toks, last.i) \notin
            {"SET", "DEFINE", "CALL", "IF", "WHILE", "MOVE", "TURN", "DRAW", "COLOR"})
    => /\ error = "none"
       /\ last.op = "SKIP"
       /\ Len(frames) = last.depth
       /\ Top.toks = last.toks
       /\ Top.i = last.i + 1
       /\ symbols = last.symbols
       /\ call_stack = last.call_stack
       /\ cursor = last.cursor
       /\ screen = last.screen

\* A stray closing brace has been skipped at the top level, after a MOVE.
UnknownTokenIsSkippedWitness ==
    /\ Did("SKIP")
    /\ At(last.toks, last.i) = "}"
    /\ last.depth = 1
    /\ Top.i = last.i + 1
    /\ Len(screen) = 1

-----------------------------------------------------------------------------
(* The tokenizer on its own, applied to every source string up to a length  *)
(* over an alphabet of letters, digits, whitespace and symbols.             *)

CodeChars == {"a", "1", " ", "\n", "{", ")", ",", "+", "=", "!", "<"}

ExampleCodes ==
    { <<"I", "F", " ", "a", "!", "=", "1", "{", "}">>,
      <<"x", " ", "!", " ", "=", " ", "1">>,
      <<"a", "<", "b", ">", "c">>,
      <<"f", "(", "a", ",", "b", ")">>,
      <<"!", "!", "=", "=">>,
      <<"a", "*", "b", "/", "c", "-", "d">>,
      <<"S", "E", "T", " ", "x", "=", "(", "2", ".", "5", "+", "y", ")", "\n">>,
      <<"!", "\n", "=">>,
      <<"a", " ", "!", " ", "=", "b">> }

Codes == SeqsUpTo(CodeChars, MaxCodeLen) \cup ExampleCodes

InitTokenize ==
    /\ \E code \in Codes : arg = [NoArg EXCEPT !.code = code]
    /\ res = NoRes
    /\ tokens = <<>>
    /\ current_state = STATE_INPUT
    /\ frames = <<>>
    /\ symbols = EmptyEnv
    /\ call_stack = <<>>
    /\ cursor = InitCursor
    /\ screen = <<>>
    /\ error = "none"
    /\ last = NoLast
    /\ count = NoCount

\* tokens = tokenize(code)
ApplyTokenize ==
    /\ ~res.done
    /\ res' = [done |-> TRUE, tokens |-> tokenize(arg.code)]
    /\ UNCHANGED <<current_state, tokens, frames, symbols, call_stack, cursor, screen, error,
                   last, count, arg>>

NextTokenize == ApplyTokenize

SpecTokenize == InitTokenize /\ [][NextTokenize]_vars

\* The symbols that are tokens of one character.
SymbolChars == {"{", "}", "(", ")", ",", "+", "-", "*", "/", "=", ">", "<"}

Chars(tok) == {tok[k] : k \in 1 .. Len(tok)}

\* C16: tokenize fails on no source string, and in its output each of
\* { } ( ) , + - * / = > < appears only as a token of one character (the = of
\* the token != apart), no token is empty or contains whitespace, and no token
\* ! is immediately followed by a token =: every such pair has become !=.
TokenizeSeparates ==
    res.done =>
        /\ \A k \in 1 .. Len(res.tokens) :
               LET tok == res.tokens[k] IN
               /\ tok # <<>>
               /\ Chars(tok) \cap {" ", "\n"} = {}
               /\ (Chars(tok) \cap SymbolChars # {}) => (Len(tok) = 1 \/ tok = <<"!", "=">>)
        /\ \A k \in 1 .. Len(res.tokens) - 1 :
               ~(res.tokens[k] = <<"!">> /\ res.tokens[k + 1] = <<"=">>)

\* "a ! =b" has become the tokens a, != and b.
TokenizeSeparatesWitness ==
    /\ arg.code = <<"a", " ", "!", " ", "=", "b">>
    /\ res.done
    /\ res.tokens = <<<<"a">>, <<"!", "=">>, <<"b">>>>

\* C17: a name bound to a function definition, used where a number is
\* expected, evaluates to 0 and raises no error: after DEFINE f ( ) { },
\* SET x = f + 1 binds x to 1 and MOVE f Forward moves by 0.
FunctionNameIsZero ==
    /\ (tokens = FunctionPlusOne /\ current_state = STATE_RUNNING) =>
           /\ error = "none"
           /\ Finished => symbols["x"] = Num(1)
    /\ (tokens = FunctionAsDistance /\ current_state = STATE_RUNNING) =>
           /\ error = "none"
           /\ Finished => (cursor.x = Num(400) /\ cursor.y = Num(300) /\ Len(screen) = 1)

-----------------------------------------------------------------------------
(* The three parse functions on their own, called at any index under stop   *)
(* sets with and without the closing parenthesis, as the calls made for a   *)
(* parenthesized sub-expression are.                                        *)

NestedExprs ==
    { <<"(", "(", "2", ")", ")">>,
      <<"(", "(", "2", "+", "3", ")", "*", "x", ")", "-", "u">>,
      <<"2", "*", "(", "3", "-", "(", "x", "-", "2", ")", ")", "-", "3">>,
      <<"(", "2", "-", "3", ")", "-", "x">> }

ParseInputs == SeqsUpTo(ExprAlphabet, MaxSeqLen) \cup ParenChains \cup ExampleExprs \cup NestedExprs

ParseStopSets == { {}, {"-", "x"}, {")"}, {")", "-"} }

MaxStart == 2

InitParse ==
    /\ tokens \in ParseInputs
    /\ \E start \in 0 .. MaxStart, stop \in ParseStopSets :
           /\ start <= Len(tokens)
           /\ arg = [NoArg EXCEPT !.start = start, !.stop = stop]
    /\ res = NoRes
    /\ current_state = STATE_SYNTAX
    /\ frames = <<>>
    /\ symbols = EmptyEnv
    /\ call_stack = <<>>
    /\ cursor = InitCursor
    /\ screen = <<>>
    /\ error = "none"
    /\ last = NoLast
    /\ count = NoCount

\* parse_expression, parse_term and parse_factor, each called with (tokens, i, stop_tokens).
ApplyParse ==
    /\ ~res.done
    /\ res' = [done |-> TRUE,
               expression |-> parse_expression(tokens, arg.start, arg.stop),
               term |-> parse_term(tokens, arg.start, arg.stop),
               factor |-> parse_factor(tokens, arg.start, arg.stop)]
    /\ UNCHANGED <<current_state, tokens, frames, symbols, call_stack, cursor, screen, error,
                   last, count, arg>>

NextParse == ApplyParse

SpecParse == InitParse /\ [][NextParse]_vars

\* The indices of the tokens the call that returned r consumed.
Consumed(r) == IF r.err = "none" THEN arg.start .. r.i - 1 ELSE {}

\* The parentheses open at index k that were opened at or after the start index.
OpenParens(k) ==
    Cardinality({j \in arg.start .. k - 1 : At(tokens, j) = "("})
        - Cardinality({j \in arg.start .. k - 1 : At(tokens, j) = ")"})

\* The results of the three calls.
Results == {res.expression, res.term, res.factor}

\* C18 as stated: no call of parse_expression, parse_term or parse_factor
\* consumes a token of the stop set it was given, the calls made for nested
\* parenthesized sub-expressions included; a stop token in factor position
\* raises an error.
NoStopTokenConsumed ==
    res.done =>
        /\ \A r \in Results : \A k \in Consumed(r) : At(tokens, k) \notin arg.stop
        /\ (arg.start < Len(tokens) /\ At(tokens, arg.start) \in arg.stop) =>
               \A r \in Results : r.err # "none"

\* C18, amended: the only token of its stop set that a call consumes is the
\* closing parenthesis of a parenthesized factor that the same call opened;
\* under a stop set without the closing parenthesis no stop token is consumed
\* at all; a stop token in factor position raises an error.
OnlyOwnClosingParenConsumed ==
    res.done =>
        /\ \A r \in Results : \A k \in Consumed(r) :
               At(tokens, k) \in arg.stop => (At(tokens, k) = ")" /\ OpenParens(k) >= 1)
        /\ ")" \notin arg.stop =>
               \A r \in Results : \A k \in Consumed(r) : At(tokens, k) \notin arg.stop
        /\ (arg.start < Len(tokens) /\ At(tokens, arg.start) \in arg.stop) =>
               \A r \in Results : r.err # "none"

\* The inner factor of ( ( 2 ) ), parsed under the stop set of the outer
\* parenthesis, has consumed its own closing parenthesis and stopped before
\* the outer one.
OnlyOwnClosingParenConsumedWitness ==
    /\ tokens = <<"(", "(", "2", ")", ")">>
    /\ arg.start = 1
    /\ arg.stop = {")"}
    /\ res.done
    /\ res.factor.err = "none"
    /\ res.factor.i = 4
    /\ res.expression.i = 4

-----------------------------------------------------------------------------
(* Call stack and scope. *)

IsCall(frame) == frame.kind = "call"

\* The active function invocations, the outermost first, each with the
\* environment its caller had when the CALL was executed.
ActiveCalls == SelectSeq(frames, IsCall)

\* C19: in every reachable state the call stack holds exactly one snapshot
\* per active function invocation, in the order of the calls (the innermost
\* last: LIFO), each snapshot equal to the caller's environment at the moment
\* of the call; the stack is empty whenever no function is active, as it is
\* when the top-level interpretation has finished normally.
CallStackMirrorsInvocations ==
    /\ Len(call_stack) = Len(ActiveCalls)
    /\ \A k \in 1 .. Len(call_stack) : call_stack[k] = ActiveCalls[k].caller_env
    /\ (\A k \in 1 .. Len(frames) : frames[k].kind # "call") => call_stack = <<>>
    /\ Finished => call_stack = <<>>
    /\ Did("CALL") => (call_stack = Append(last.call_stack, last.symbols))
    /\ Did("RETURN") => (last.call_stack = Append(call_stack, symbols))

\* Three invocations of rec are active, below IF bodies, with three different
\* snapshots on the stack.
CallStackMirrorsInvocationsWitness ==
    /\ tokens = RecProg(2)
    /\ error = "none"
    /\ Len(frames) = 6
    /\ Len(call_stack) = 3
    /\ call_stack[1] # call_stack[2]
    /\ call_stack[2] # call_stack[3]
    /\ "n" \notin DOMAIN call_stack[1]
    /\ call_stack[2]["n"] = Num(2)
    /\ call_stack[3]["n"] = Num(1)

\* The parameters of the function the last CALL entered.
LastParams == {LastCallee.params[k] : k \in 1 .. Len(LastCallee.params)}

\* C20: a function body runs in the caller's environment overlaid with the
\* parameters, not in a scope of its own: every caller binding that no
\* parameter shadows is readable in the body, the parameters and SETs of an
\* enclosing active call included; a SET in the body is visible to the
\* statements and nested CALLs that follow it in the body; and the function's
\* own name stays bound, so that it can call itself.
BodyRunsInCallerEnvironment ==
    /\ Did("CALL") =>
           /\ DOMAIN symbols = DOMAIN last.symbols \cup LastParams
           /\ \A name \in DOMAIN last.symbols \ LastParams :
                  symbols[name] = last.symbols[name]
           /\ At(last.toks, last.i + 1) \notin LastParams =>
                  symbols[At(last.toks, last.i + 1)] = LastCallee
    /\ (Did("SET") /\ last.depth >= 2) =>
           /\ At(last.toks, last.i + 1) \in DOMAIN symbols
           /\ \A name \in DOMAIN last.symbols \ {At(last.toks, last.i + 1)} :
                  name \in DOMAIN symbols /\ symbols[name] = last.symbols[name]
    /\ (tokens = ScopeProg /\ current_state = STATE_RUNNING) =>
           /\ error = "none"
           /\ "w" \in DOMAIN symbols => symbols["w"] = Num(12)
           /\ "z" \in DOMAIN symbols => symbols["z"] = Num(33)
    /\ \A n \in 0 .. MaxN :
           (tokens = RecProg(n) /\ current_state = STATE_RUNNING /\ "rec" \in DOMAIN symbols) =>
               /\ error = "none"
               /\ symbols["rec"].t = "fn"

\* The inner function has read a parameter and a SET of the enclosing call,
\* its own parameter and a global: z = a + b + v + g = 5 + 12 + 6 + 10.
BodyRunsInCallerEnvironmentWitness ==
    /\ tokens = ScopeProg
    /\ Did("SET")
    /\ Len(call_stack) = 2
    /\ symbols["z"] = Num(33)

-----------------------------------------------------------------------------
(* Blocks whose closing brace is missing.                                   *)

\* The index of the first opening brace at or after i: the brace that opens
\* the block of the IF, WHILE or DEFINE statement at i.
OpenBrace(toks, i) ==
    CHOOSE k \in i .. Len(toks) - 1 :
        At(toks, k) = "{" /\ \A n \in i .. k - 1 : At(toks, n) # "{"

\* The braces from start on are unbalanced to the end of toks: no token closes
\* the block that was opened just before start.
Unclosed(toks, start) ==
    \A n \in start .. Len(toks) - 1 :
        ~(At(toks, n) = "}" /\ BalancedSlice(toks, start, n))

\* The tokens of toks from start on, without the last one.
RestButLast(toks, start) ==
    IF start >= Len(toks) THEN <<>> ELSE SubSeq(toks, start + 1, Len(toks) - 1)

\* The last step interpreted an IF, WHILE or DEFINE whose block is never closed.
UnclosedBlock ==
    /\ last.op \in {"IF", "WHILE", "DEFINE"}
    /\ \E k \in last.i .. Len(last.toks) - 1 : At(last.toks, k) = "{"
    /\ Unclosed(last.toks, OpenBrace(last.toks, last.i) + 1)

\* C21 as stated: when the closing brace of an IF, WHILE or DEFINE block is
\* missing, no error is raised: the run of such a program never ends in an
\* exception.
NoErrorOnMissingBrace ==
    (tokens \in UnclosedPrograms /\ current_state = STATE_RUNNING) => error = "none"

\* C21, amended: the missing closing brace itself is never reported.  The IF,
\* WHILE or DEFINE statement raises nothing: find_block_end returns the length
\* of the token sequence, the body is the remaining tokens without the last
\* one, and the enclosing interpretation resumes at the end of its tokens, so
\* it ends.  An error can arise only later, inside the truncated body, when
\* the dropped token leaves its last statement without an operand.
MissingBraceUnreported ==
    /\ UnclosedBlock =>
           LET start == OpenBrace(last.toks, last.i) + 1 IN
           /\ error = "none"
           /\ find_block_end(last.toks, start) = Len(last.toks)
           /\ \/ /\ last.op \in {"IF", "WHILE"}
                 /\ Len(frames) = last.depth + 1
                 /\ Top.toks = RestButLast(last.toks, start)
                 /\ Top.ret = Len(last.toks)
              \/ /\ last.op \in {"IF", "WHILE"}
                 /\ Len(frames) = last.depth
                 /\ Top.i = Len(last.toks)
              \/ /\ last.op = "DEFINE"
                 /\ Len(frames) = last.depth
                 /\ Top.i = Len(last.toks)
                 /\ symbols[At(last.toks, last.i + 1)].body = RestButLast(last.toks, start)
    /\ (tokens \in UnclosedPrograms /\ error = "none" /\ last.depth = 2 /\ Len(frames) = 1) =>
           Top.i = Len(tokens)
    /\ (tokens \in UnclosedPrograms /\ error # "none") =>
           /\ error = "Unexpected end of tokens in expression"
           /\ last.op = "SET"
           /\ last.depth >= 2
           /\ Last(last.toks) \in {"=", "+"}

\* An IF whose block is never closed has been entered: its body is SET a =,
\* the value 1 having been dropped.
MissingBraceUnreportedWitness ==
    /\ UnclosedBlock
    /\ last.op = "IF"
    /\ last.toks = <<"SET", "i", "=", "0", "IF", "1", ">", "0", "{", "SET", "a", "=", "1">>
    /\ Top.toks = <<"SET", "a", "=">>
    /\ error = "none"

-----------------------------------------------------------------------------
(* The mode machine and the start of the interpreter.                       *)

\* This step starts interpret: an invocation exists and has interpreted nothing.
Starts == frames' # <<>> /\ count'.stmts = 0

\* The state a run starts from at the first launch of the application.
InitialState == symbols = EmptyEnv /\ call_stack = <<>> /\ cursor = InitCursor

\* C22: the mode changes only syntax -> input, input -> running and
\* running -> syntax; interpret is started only by the step from input to
\* running mode, hence at most once per visit to running mode; the step out
\* of running mode leaves the environment and the call stack empty and the
\* cursor at the centre with heading 0 and white color, and every start
\* after a completed run finds them so.
StartOnlyFromResetState ==
    [][/\ Starts =>
             /\ current_state = STATE_INPUT
             /\ current_state' = STATE_RUNNING
             /\ count.runs > 0 => InitialState /\ InitialState'
       /\ current_state' # current_state =>
             \/ current_state = STATE_SYNTAX /\ current_state' = STATE_INPUT
             \/ current_state = STATE_INPUT /\ current_state' = STATE_RUNNING /\ Starts
             \/ /\ current_state = STATE_RUNNING
                /\ current_state' = STATE_SYNTAX
                /\ frames = <<>>
                /\ InitialState']_vars

\* A second run has just been started, after a first one completed and R was
\* pressed: the environment and the call stack are empty, the cursor initial.
StartOnlyFromResetStateWitness ==
    /\ count.runs = 1
    /\ current_state = STATE_RUNNING
    /\ frames = <<Frame(ScopeProg, "top", <<>>, 0, EmptyEnv)>>
    /\ count.stmts = 0
    /\ InitialState

=============================================================================
